---- MODULE Spec2Model ----
(***************************************************************************)
(* Model of the school-management REST backend (notes_app_backend):        *)
(* the Faculty/User registrar of routes/faculty.js, the Mongoose schemas   *)
(* it writes through, the single-document handlers that share its          *)
(* collections, and the JWT authorization middleware.                      *)
(*                                                                         *)
(* Strings are sequences of one-character strings, so that toLowerCase,    *)
(* toUpperCase and slice are computed, not assumed.                        *)
(***************************************************************************)
EXTENDS Integers, Sequences, FiniteSets, TLC

\* ------------------------------------------------------------------------
\* Bounds of the model
\* ------------------------------------------------------------------------
MaxId == 4
MaxClock == 36
MaxTokens == 2
TickHours == 12

\* ------------------------------------------------------------------------
\* Program constants
\* ------------------------------------------------------------------------
TokenTTL == 24
DeptCodeLen == 3

\* ------------------------------------------------------------------------
\* Input domains
\* ------------------------------------------------------------------------
Procs == {"p1", "p2"}
Emails == {<<"a">>, <<"B">>}
Mobiles == {"m1", "m2"}
Departments == {<<"c", "s", "e", "d">>, <<"m", "a">>}
RoleIds == {"r1", "r2"}
Passwords == {"pw1"}
CurrentYear == 24

None == "none"
\* an absent atom (mobile number, role id) and an absent string
Undefined == "undefined"
NoString == <<>>

\* ------------------------------------------------------------------------
\* String conversions
\* ------------------------------------------------------------------------
LowerChar(c) ==
    CASE c = "A" -> "a"
      [] c = "B" -> "b"
      [] c = "C" -> "c"
      [] c = "D" -> "d"
      [] c = "E" -> "e"
      [] c = "M" -> "m"
      [] c = "S" -> "s"
      [] OTHER -> c

UpperChar(c) ==
    CASE c = "a" -> "A"
      [] c = "b" -> "B"
      [] c = "c" -> "C"
      [] c = "d" -> "D"
      [] c = "e" -> "E"
      [] c = "m" -> "M"
      [] c = "s" -> "S"
      [] OTHER -> c

ToLowerCase(s) == [i \in 1..Len(s) |-> LowerChar(s[i])]

ToUpperCase(s) == [i \in 1..Len(s) |-> UpperChar(s[i])]

Min(a, b) == IF a < b THEN a ELSE b

\* String.prototype.slice(0, n)
Slice0(s, n) == SubSeq(s, 1, Min(n, Len(s)))

\* ------------------------------------------------------------------------
\* State
\* ------------------------------------------------------------------------
VARIABLES
    users,      \* User collection (committed documents)
    faculty,    \* Faculty collection (committed documents)
    roles,      \* Role collection: role id -> "absent" | "active" | "inactive"
    nextId,     \* next ObjectId the driver hands out
    pc,         \* position of each in-flight faculty request
    req,        \* request body and parameters of each in-flight request
    loc,        \* handler locals: generated ids, transaction, pending writes, error
    resp,       \* response sent: status, kind, number of responses
    snap,       \* what held when the request arrived, and whether it ran alone
    tokens,     \* tokens issued so far
    now,        \* wall clock, hours
    mw,         \* outcome of the last request through the authorization middleware
    out,        \* last account request (signup, login, change-password) and its response
    signed,     \* per email: the last successful signup whose password has not been changed
    changed,    \* the last successful password change
    classes,    \* Class collection
    classIndex, \* whether unique_class_section_year exists on the Class collection
    cpc,        \* in-flight class requests
    upc,        \* in-flight user, student and role requests
    roleNames,  \* Role collection: role id -> name
    notes,      \* Notes collection
    nout        \* last note request and its response

vars == <<users, faculty, roles, nextId, pc, req, loc, resp, snap, tokens, now, mw,
          out, signed, changed, classes, classIndex, cpc, upc, roleNames,
          notes, nout>>

dbVars == <<users, faculty, roles, nextId>>
procVars == <<pc, req, loc, resp, snap>>
authVars == <<tokens, now, mw>>
acctVars == <<out, signed, changed>>
classVars == <<classes, classIndex, cpc>>
userVars == <<upc, roleNames>>
noteVars == <<notes, nout>>
extVars == <<acctVars, classVars, userVars, noteVars>>


\* ------------------------------------------------------------------------
\* Schemas
\* ------------------------------------------------------------------------
\* models/user.js: the role a User gets when none is given
DefaultUserRole == "user"

UserRoles == {"user", "student", "faculty", "admin"}

\* models/user.js: the first-login flag a User gets when none is given
DefaultIsFirstLogin == TRUE

\* Faulty variant, for comparison: the User collection without its unique index on mobileNumber
UserDuplicateKeysEmailOnly(d, coll) ==
    {k \in {"email"} : \E u \in coll : u.id # d.id /\ u.email = d.email}

\* models/user.js: unique index on email, unique sparse index on mobileNumber.
\* The set of index fields the document d would violate in collection coll.
UserDuplicateKeys(d, coll) ==
    {k \in {"email", "mobileNumber"} :
        \E u \in coll :
            /\ u.id # d.id
            /\ \/ k = "email" /\ u.email = d.email
               \/ k = "mobileNumber" /\ d.mobile # Undefined /\ u.mobile = d.mobile}

\* Faulty variant, for comparison: the Faculty collection without its unique index on mobileNumber
FacultyDuplicateKeysNoMobile(d, coll) ==
    {k \in {"facultyId", "employeeId", "email"} :
        \E f \in coll :
            /\ f.id # d.id
            /\ \/ k = "facultyId" /\ f.facultyId = d.facultyId
               \/ k = "employeeId" /\ f.employeeId = d.employeeId
               \/ k = "email" /\ f.email = d.email}

\* facultySchema: unique indexes on facultyId, employeeId, email, mobileNumber
FacultyDuplicateKeys(d, coll) ==
    {k \in {"facultyId", "employeeId", "email", "mobileNumber"} :
        \E f \in coll :
            /\ f.id # d.id
            /\ \/ k = "facultyId" /\ f.facultyId = d.facultyId
               \/ k = "employeeId" /\ f.employeeId = d.employeeId
               \/ k = "email" /\ f.email = d.email
               \/ k = "mobileNumber" /\ f.mobile = d.mobile}

\* facultySchema.pre('save'): department.slice(0, 3).toUpperCase()
DepartmentCode(department) == ToUpperCase(Slice0(department, DeptCodeLen))

\* facultySchema.pre('save'): (count + 1) padded to four digits; the padding
\* keeps distinct numbers distinct, so the number stands for the string
Sequence(count) == count + 1

\* facultySchema.pre('save'): `F${currentYear}${departmentCode}${sequence}`
MakeFacultyId(yy, department, count) ==
    <<"F", yy, DepartmentCode(department), Sequence(count)>>

\* Faulty variant, for comparison: the employee id numbered from the count itself
MakeEmployeeIdFromCount(yy, department, count) ==
    <<"FAC", yy, DepartmentCode(department), count>>

\* facultySchema.pre('save'): `FAC-${currentYear}-${departmentCode}-${sequence}`
MakeEmployeeId(yy, department, count) ==
    <<"FAC", yy, DepartmentCode(department), Sequence(count)>>

\* Faculty.countDocuments(): run without the session, it sees committed documents
CountDocuments == Cardinality(faculty)

\* Faulty variant, for comparison: the role lookup without its isActive filter
ValidRoleAnyState(r) == r \in RoleIds /\ roles[r] # "absent"

\* Role.findOne({ _id: role, isActive: true })
ValidRole(r) == r \in RoleIds /\ roles[r] = "active"

\* ------------------------------------------------------------------------
\* Handler locals, responses, request snapshots
\* ------------------------------------------------------------------------
NoReq == [op |-> None, id |-> 0, email |-> NoString, mobile |-> Undefined,
          department |-> NoString, role |-> Undefined]

\* ids, fdoc and udoc hold at most one element: the generated id pair, the
\* Faculty document and the User document the handler has saved
NoLoc == [txn |-> "none", ids |-> {}, fdoc |-> {}, udoc |-> {},
          err |-> None, field |-> None, ended |-> 0]

NoResp == [status |-> 0, error |-> None, count |-> 0]

NoSnap == [emailUser |-> FALSE, held |-> FALSE, roleActive |-> FALSE,
           alone |-> TRUE, nid |-> 0]

\* Documents written inside a transaction that is still open
PendingFaculty(p) ==
    IF loc[p].txn = "active" THEN loc[p].fdoc ELSE {}

PendingUsers(p) ==
    IF loc[p].txn = "active" THEN loc[p].udoc ELSE {}

OthersPendingFaculty(self) == UNION {PendingFaculty(p) : p \in Procs \ {self}}

OthersPendingUsers(self) == UNION {PendingUsers(p) : p \in Procs \ {self}}

AllPendingFaculty == UNION {PendingFaculty(p) : p \in Procs}

AllPendingUsers == UNION {PendingUsers(p) : p \in Procs}

\* A response is followed at once by the release of its connection: nothing
\* else runs while a response is being sent
Quiet == \A p \in Procs : pc[p] # "done"

\* The second connection is taken only while the first is busy
Available(self) == pc[self] = "idle" /\ (self = "p2" => pc["p1"] # "idle")

\* A request is alone when no other is in flight as it arrives and nothing
\* else takes a step before it is answered
Touch(self) ==
    [q \in Procs |->
        IF q # self /\ pc[q] \notin {"idle", "done"}
        THEN [snap[q] EXCEPT !.alone = FALSE]
        ELSE snap[q]]

\* The outer catch of router.post('/add') and router.put('/edit/:id')
ErrorStatus(err) ==
    IF err = "ValidationError" THEN 400
    ELSE IF err = "DuplicateKey" THEN 400
    ELSE 500

Respond(p, status, error) ==
    resp' = [resp EXCEPT ![p] = [status |-> status, error |-> error,
                                 count |-> resp[p].count + 1]]

\* ------------------------------------------------------------------------
\* Tokens and the authorization middleware (middleware/auth.js)
\* ------------------------------------------------------------------------
NoToken == [userId |-> 0, role |-> None, iat |-> 0, sig |-> None]

NoHeader == [scheme |-> None, token |-> NoToken]

NoUser == [userId |-> 0, id |-> 0, role |-> None]

NoRequest == [variant |-> None, header |-> NoHeader, status |-> 0, next |-> 0,
              user |-> NoUser, ran |-> FALSE]

\* jwt.sign({ userId, role, ... }, JWT_SECRET, { expiresIn: '24h' })
JwtSign(u) == [userId |-> u.id, role |-> u.role, iat |-> now, sig |-> "valid"]

\* Faulty variant, for comparison: verification that checks the signature only
JwtVerifySignatureOnly(t) == t.sig = "valid"

\* jwt.verify(token, JWT_SECRET): the signature is ours and the token has not
\* reached its expiry (iat + 24h)
JwtVerify(t) == t.sig = "valid" /\ now < t.iat + TokenTTL

\* authHeader && authHeader.startsWith('Bearer ')
HasBearer(h) == h.scheme = "Bearer"

\* User.findById(decoded.userId)
FindUserById(id) == {u \in users : u.id = id}

\* Faulty variant, for comparison: req.user is the decoded token alone
AttachDecoded(t, u) == [userId |-> t.userId, id |-> t.userId, role |-> t.role]

\* req.user = { ...decoded, _id: user._id, role: user.role }
AttachUser(t, u) == [userId |-> t.userId, id |-> u.id, role |-> u.role]

Rejected(status) == [status |-> status, next |-> 0, user |-> NoUser]

\* Faulty variant, for comparison: the token's user is not looked up; a missing user passes
AuthWithoutLookup(h) ==
    IF ~HasBearer(h) THEN Rejected(401)
    ELSE IF ~JwtVerify(h.token) THEN Rejected(401)
    ELSE [status |-> 0, next |-> 1,
          user |-> [userId |-> h.token.userId, id |-> h.token.userId,
                    role |-> h.token.role]]

\* auth: 401 unless the header is a Bearer header, the token verifies and its
\* user exists; then req.user is attached and next() is called
Auth(h) ==
    IF ~HasBearer(h) THEN Rejected(401)
    ELSE IF ~JwtVerify(h.token) THEN Rejected(401)
    ELSE IF FindUserById(h.token.userId) = {} THEN Rejected(401)
    ELSE [status |-> 0, next |-> 1,
          user |-> AttachUser(h.token,
                              CHOOSE u \in FindUserById(h.token.userId) : TRUE)]

\* adminAuth / facultyAuth: auth, then 403 unless req.user.role is the
\* required role
RoleGate(required, a) ==
    IF a.next = 0 THEN a
    ELSE IF a.user.role # required THEN [a EXCEPT !.status = 403, !.next = 0]
    ELSE a

Middleware(variant, h) ==
    IF variant = "adminAuth" THEN RoleGate("admin", Auth(h))
    ELSE IF variant = "facultyAuth" THEN RoleGate("faculty", Auth(h))
    ELSE Auth(h)

\* ------------------------------------------------------------------------
\* Requests outside faculty registration: idle values
\* ------------------------------------------------------------------------
ClassProcs == {"c1", "c2"}

UserProcs == {"u1", "u2"}

NoOut == [op |-> None, status |-> 0, userId |-> 0, token |-> NoToken,
          isFirstLogin |-> FALSE]

NoSigned == [userId |-> 0, password |-> None]

NoChange == [userId |-> 0, old |-> None, new |-> None]

NoClassReq == [pc |-> "idle"]

NoUserReq == [pc |-> "idle"]

NoNote == [op |-> None, caller |-> 0, id |-> None, title |-> None,
           content |-> None, status |-> 0]

\* ------------------------------------------------------------------------
\* Initial state
\* ------------------------------------------------------------------------
Init ==
    /\ users = {}
    /\ faculty = {}
    /\ roles = [r \in RoleIds |-> IF r = "r1" THEN "active" ELSE "absent"]
    /\ nextId = 1
    /\ pc = [p \in Procs |-> "idle"]
    /\ req = [p \in Procs |-> NoReq]
    /\ loc = [p \in Procs |-> NoLoc]
    /\ resp = [p \in Procs |-> NoResp]
    /\ snap = [p \in Procs |-> NoSnap]
    /\ tokens = {}
    /\ now = 0
    /\ mw = NoRequest
    /\ out = NoOut
    /\ signed = [e \in Emails |-> NoSigned]
    /\ changed = NoChange
    /\ classes = {}
    /\ classIndex = TRUE
    /\ cpc = [p \in ClassProcs |-> NoClassReq]
    /\ upc = [p \in UserProcs |-> NoUserReq]
    /\ roleNames = [r \in RoleIds |-> IF r = "r1" THEN <<"t">> ELSE NoString]
    /\ notes = {}
    /\ nout = NoNote


\* ------------------------------------------------------------------------
\* POST /api/faculty/add
\* ------------------------------------------------------------------------
EmailHeldByUser(email) == \E u \in users : u.email = ToLowerCase(email)

EmailOrMobileHeld(email, mobile) ==
    \/ \E u \in users : u.email = ToLowerCase(email) \/ u.mobile = mobile
    \/ \E f \in faculty : f.email = ToLowerCase(email) \/ f.mobile = mobile

\* ObjectIds stay within the bound: the requests in flight may still take
\* two each
IdsLeft(n) ==
    nextId - 1 + n + 2 * Cardinality({p \in Procs : req[p].op = "add" /\ pc[p] # "done"})
        <= MaxId

\* The request arrives (its token has passed the middleware); the handler
\* reads the body and issues User.findOne({ email: email.toLowerCase() })
FacultyAddStart(self) ==
    /\ Available(self)
    /\ Quiet
    /\ IdsLeft(2)
    /\ \E email \in Emails, mobile \in Mobiles, department \in Departments,
          role \in RoleIds :
          /\ req' = [req EXCEPT ![self] =
                [op |-> "add", id |-> 0, email |-> email, mobile |-> mobile,
                 department |-> department, role |-> role]]
          /\ snap' = [Touch(self) EXCEPT ![self] =
                [emailUser |-> EmailHeldByUser(email),
                 held |-> EmailOrMobileHeld(email, mobile),
                 roleActive |-> (roles[role] = "active"),
                 alone |-> \A q \in Procs \ {self} : pc[q] = "idle",
                 nid |-> nextId]]
    /\ pc' = [pc EXCEPT ![self] = "checkUser"]
    /\ loc' = [loc EXCEPT ![self] = NoLoc]
    /\ resp' = [resp EXCEPT ![self] = NoResp]
    /\ UNCHANGED <<dbVars, authVars, extVars>>

\* existingUser found: 400; otherwise Role.findOne is issued
FacultyAddCheckUser(self) ==
    /\ pc[self] = "checkUser"
    /\ Quiet
    /\ IF EmailHeldByUser(req[self].email)
       THEN /\ Respond(self, 400, "DuplicateEmail")
            /\ pc' = [pc EXCEPT ![self] = "done"]
       ELSE /\ pc' = [pc EXCEPT ![self] = "checkRole"]
            /\ UNCHANGED resp
    /\ snap' = Touch(self)
    /\ UNCHANGED <<dbVars, authVars, extVars, req, loc>>

\* validRole missing: 400; otherwise the session is started, the
\* transaction opened, and faculty.save({ session }) validates and enters the
\* first pre('save') hook, which issues countDocuments
FacultyAddCheckRole(self) ==
    /\ pc[self] = "checkRole"
    /\ Quiet
    /\ IF ~ValidRole(req[self].role)
       THEN /\ Respond(self, 400, "InvalidRole")
            /\ pc' = [pc EXCEPT ![self] = "done"]
            /\ UNCHANGED loc
       ELSE /\ pc' = [pc EXCEPT ![self] = "genIds"]
            /\ loc' = [loc EXCEPT ![self].txn = "active"]
            /\ UNCHANGED resp
    /\ snap' = Touch(self)
    /\ UNCHANGED <<dbVars, authVars, extVars, req>>

\* first pre('save') hook: the count arrives, both ids are built from it;
\* the second hook issues Role.findOne
FacultyAddGenIds(self) ==
    /\ pc[self] = "genIds"
    /\ Quiet
    /\ loc' = [loc EXCEPT ![self].ids =
            {[facultyId |-> MakeFacultyId(CurrentYear, req[self].department, CountDocuments),
              employeeId |-> MakeEmployeeId(CurrentYear, req[self].department, CountDocuments)]}]
    /\ pc' = [pc EXCEPT ![self] = "validateRole"]
    /\ snap' = Touch(self)
    /\ UNCHANGED <<dbVars, authVars, extVars, req, resp>>

\* second pre('save') hook: a plain Error when the role is gone or inactive;
\* otherwise the insert is issued
FacultyAddValidateRole(self) ==
    /\ pc[self] = "validateRole"
    /\ Quiet
    /\ IF ValidRole(req[self].role)
       THEN /\ pc' = [pc EXCEPT ![self] = "insertFaculty"]
            /\ UNCHANGED loc
       ELSE /\ pc' = [pc EXCEPT ![self] = "abort"]
            /\ loc' = [loc EXCEPT ![self].err = "Error"]
    /\ snap' = Touch(self)
    /\ UNCHANGED <<dbVars, authVars, extVars, req, resp>>

\* The Faculty document faculty.save() inserts
NewFaculty(self) ==
    LET ids == CHOOSE i \in loc[self].ids : TRUE IN
    [id |-> nextId,
     email |-> ToLowerCase(req[self].email),
     mobile |-> req[self].mobile,
     department |-> req[self].department,
     role |-> req[self].role,
     facultyId |-> ids.facultyId,
     employeeId |-> ids.employeeId,
     isActive |-> TRUE]

\* What the database answers to the Faculty insert inside the transaction:
\* E11000 against a committed document, a write conflict against a document
\* another open transaction has inserted, or success
FacultyInsertOutcome(self) ==
    IF FacultyDuplicateKeys(NewFaculty(self), faculty) # {} THEN "DuplicateKey"
    ELSE IF FacultyDuplicateKeys(NewFaculty(self), OthersPendingFaculty(self)) # {}
         THEN "WriteConflict"
    ELSE "ok"

FacultyAddInsertFaculty(self) ==
    /\ pc[self] = "insertFaculty"
    /\ Quiet
    /\ \/ /\ FacultyInsertOutcome(self) = "ok"
          /\ loc' = [loc EXCEPT ![self].fdoc = {NewFaculty(self)}]
          /\ nextId' = nextId + 1
          /\ pc' = [pc EXCEPT ![self] = "saveUser"]
       \/ /\ FacultyInsertOutcome(self) = "DuplicateKey"
          /\ \E k \in FacultyDuplicateKeys(NewFaculty(self), faculty) :
                loc' = [loc EXCEPT ![self].err = "DuplicateKey", ![self].field = k]
          /\ pc' = [pc EXCEPT ![self] = "abort"]
          /\ UNCHANGED nextId
       \/ /\ FacultyInsertOutcome(self) = "WriteConflict"
          /\ loc' = [loc EXCEPT ![self].err = "WriteConflict"]
          /\ pc' = [pc EXCEPT ![self] = "abort"]
          /\ UNCHANGED nextId
       \/ /\ loc' = [loc EXCEPT ![self].err = "DbError"]
          /\ pc' = [pc EXCEPT ![self] = "abort"]
          /\ UNCHANGED nextId
    /\ snap' = Touch(self)
    /\ UNCHANGED <<users, faculty, roles, authVars, extVars, req, resp>>


\* models/user.js pre('save'): the password is stored hashed
HashPassword(password) == <<"hash", password>>

\* user.comparePassword(candidate)
ComparePassword(u, candidate) == u.password = HashPassword(candidate)

DefaultFacultyPassword == "Admin@123"

\* The User document user.save() inserts
NewFacultyUser(self) ==
    [id |-> nextId,
     email |-> ToLowerCase(req[self].email),
     mobile |-> req[self].mobile,
     role |-> DefaultUserRole,
     password |-> HashPassword(DefaultFacultyPassword),
     isFirstLogin |-> DefaultIsFirstLogin]

UserInsertOutcome(self) ==
    IF UserDuplicateKeys(NewFacultyUser(self), users) # {} THEN "DuplicateKey"
    ELSE IF UserDuplicateKeys(NewFacultyUser(self), OthersPendingUsers(self)) # {}
         THEN "WriteConflict"
    ELSE "ok"

\* user.save({ session }) answers; on success commitTransaction is issued
FacultyAddSaveUser(self) ==
    /\ pc[self] = "saveUser"
    /\ Quiet
    /\ \/ /\ UserInsertOutcome(self) = "ok"
          /\ loc' = [loc EXCEPT ![self].udoc = {NewFacultyUser(self)}]
          /\ nextId' = nextId + 1
          /\ pc' = [pc EXCEPT ![self] = "commit"]
       \/ /\ UserInsertOutcome(self) = "DuplicateKey"
          /\ \E k \in UserDuplicateKeys(NewFacultyUser(self), users) :
                loc' = [loc EXCEPT ![self].err = "DuplicateKey", ![self].field = k]
          /\ pc' = [pc EXCEPT ![self] = "abort"]
          /\ UNCHANGED nextId
       \/ /\ UserInsertOutcome(self) = "WriteConflict"
          /\ loc' = [loc EXCEPT ![self].err = "WriteConflict"]
          /\ pc' = [pc EXCEPT ![self] = "abort"]
          /\ UNCHANGED nextId
       \/ /\ loc' = [loc EXCEPT ![self].err = "DbError"]
          /\ pc' = [pc EXCEPT ![self] = "abort"]
          /\ UNCHANGED nextId
    /\ snap' = Touch(self)
    /\ UNCHANGED <<users, faculty, roles, authVars, extVars, req, resp>>

\* session.commitTransaction() answers: both documents become visible at once;
\* on success faculty.populate('role') is issued
FacultyAddCommit(self) ==
    /\ pc[self] = "commit"
    /\ Quiet
    /\ \/ /\ faculty' = faculty \cup loc[self].fdoc
          /\ users' = users \cup loc[self].udoc
          /\ loc' = [loc EXCEPT ![self].txn = "committed"]
          /\ pc' = [pc EXCEPT ![self] = "populate"]
       \/ /\ loc' = [loc EXCEPT ![self].err = "DbError"]
          /\ pc' = [pc EXCEPT ![self] = "abort"]
          /\ UNCHANGED <<users, faculty>>
    /\ snap' = Touch(self)
    /\ UNCHANGED <<roles, nextId, authVars, extVars, req, resp>>

\* faculty.populate() answers: 201 and, in the finally block, endSession();
\* a failure is thrown into the inner catch, which issues abortTransaction
FacultyAddPopulate(self) ==
    /\ pc[self] = "populate"
    /\ Quiet
    /\ \/ /\ Respond(self, 201, None)
          /\ loc' = [loc EXCEPT ![self].ended = loc[self].ended + 1]
          /\ pc' = [pc EXCEPT ![self] = "done"]
       \/ /\ loc' = [loc EXCEPT ![self].err = "DbError"]
          /\ pc' = [pc EXCEPT ![self] = "abort"]
          /\ UNCHANGED resp
    /\ snap' = Touch(self)
    /\ UNCHANGED <<dbVars, authVars, extVars, req>>

\* session.abortTransaction(): an open transaction is rolled back and the
\* caught error is rethrown; after a commit the call itself throws and
\* nothing is undone
AbortTransactionAfterCommit(l) ==
    IF l.txn \in {"active", "committed"}
    THEN [l EXCEPT !.txn = "aborted"]
    ELSE [l EXCEPT !.err = "TransactionError"]

AbortTransaction(l) ==
    IF l.txn = "active"
    THEN [l EXCEPT !.txn = "aborted"]
    ELSE [l EXCEPT !.err = "TransactionError"]

\* inner catch, finally (endSession) and the outer catch, which answers
FacultyAddAbort(self) ==
    /\ pc[self] = "abort"
    /\ Quiet
    /\ LET l == AbortTransaction(loc[self]) IN
          /\ loc' = [loc EXCEPT ![self] = [l EXCEPT !.ended = l.ended + 1]]
          /\ Respond(self, ErrorStatus(l.err), l.err)
    /\ pc' = [pc EXCEPT ![self] = "done"]
    /\ snap' = Touch(self)
    /\ UNCHANGED <<dbVars, authVars, extVars, req>>

RequiredFields ==
    {"firstName", "lastName", "email", "mobileNumber", "gender", "department", "role"}

\* POST /api/faculty/add with one required field absent from the body. The
\* handler tests no field itself: email.toLowerCase() throws a TypeError
\* outside the transaction; an absent role finds no Role; any other absent
\* field fails the validation of faculty.save() inside the transaction,
\* which is aborted. No document is written on any of these paths.
FacultyAddIncomplete(self, missing, email, role) ==
    /\ Available(self)
    /\ Quiet
    /\ req' = [req EXCEPT ![self] =
                  [NoReq EXCEPT !.op = "add-incomplete",
                                !.email = IF missing = "email" THEN NoString ELSE email,
                                !.role = IF missing = "role" THEN Undefined ELSE role]]
    /\ LET err == IF missing = "email" THEN "TypeError"
                  ELSE IF EmailHeldByUser(email) THEN "DuplicateEmail"
                  ELSE IF missing = "role" \/ ~ValidRole(role) THEN "InvalidRole"
                  ELSE "ValidationError"
       IN  /\ loc' = [loc EXCEPT ![self] =
                         IF err = "ValidationError"
                         THEN [NoLoc EXCEPT !.txn = "aborted", !.err = err, !.ended = 1,
                                            !.field = missing]
                         ELSE [NoLoc EXCEPT !.err = err, !.field = missing]]
           /\ Respond(self, IF err = "TypeError" THEN ErrorStatus(err) ELSE 400, err)
    /\ pc' = [pc EXCEPT ![self] = "done"]
    /\ snap' = [Touch(self) EXCEPT ![self] = NoSnap]
    /\ UNCHANGED <<dbVars, authVars, extVars>>

\* The connection is free for the next request
Reset(self) ==
    /\ pc[self] = "done"
    /\ pc' = [pc EXCEPT ![self] = "idle"]
    /\ req' = [req EXCEPT ![self] = NoReq]
    /\ loc' = [loc EXCEPT ![self] = NoLoc]
    /\ resp' = [resp EXCEPT ![self] = NoResp]
    /\ snap' = [snap EXCEPT ![self] = NoSnap]
    /\ UNCHANGED <<dbVars, authVars, extVars>>

\* ------------------------------------------------------------------------
\* PUT /api/faculty/edit/:id
\* ------------------------------------------------------------------------
\* The request arrives; the handler issues Role.findOne for the body's role
FacultyEditStart(self) ==
    /\ Available(self)
    /\ Quiet
    /\ \E f \in faculty, email \in Emails, mobile \in Mobiles,
          department \in Departments, role \in RoleIds :
          req' = [req EXCEPT ![self] =
                [op |-> "edit", id |-> f.id, email |-> email, mobile |-> mobile,
                 department |-> department, role |-> role]]
    /\ snap' = [Touch(self) EXCEPT ![self] = NoSnap]
    /\ pc' = [pc EXCEPT ![self] = "editCheckRole"]
    /\ loc' = [loc EXCEPT ![self] = NoLoc]
    /\ resp' = [resp EXCEPT ![self] = NoResp]
    /\ UNCHANGED <<dbVars, authVars, extVars>>

\* validRole missing: 400; otherwise Faculty.findOneAndUpdate is issued
FacultyEditCheckRole(self) ==
    /\ pc[self] = "editCheckRole"
    /\ Quiet
    /\ IF ~ValidRole(req[self].role)
       THEN /\ Respond(self, 400, "InvalidRole")
            /\ pc' = [pc EXCEPT ![self] = "done"]
       ELSE /\ pc' = [pc EXCEPT ![self] = "editUpdate"]
            /\ UNCHANGED resp
    /\ snap' = Touch(self)
    /\ UNCHANGED <<dbVars, authVars, extVars, req, loc>>

\* Faulty variant, for comparison: an edit that rebuilds both ids from the new department
UpdatedFacultyNewIds(f, body) ==
    [f EXCEPT !.email = ToLowerCase(body.email),
              !.mobile = body.mobile,
              !.department = body.department,
              !.role = body.role,
              !.facultyId = MakeFacultyId(CurrentYear, body.department, 0),
              !.employeeId = MakeEmployeeId(CurrentYear, body.department, 0)]

\* The update document of findOneAndUpdate applied to f; facultyId and
\* employeeId are not part of it, and no pre('save') hook runs
UpdatedFaculty(f, body) ==
    [f EXCEPT !.email = ToLowerCase(body.email),
              !.mobile = body.mobile,
              !.department = body.department,
              !.role = body.role]

\* findOneAndUpdate({ _id, isActive: true }, ...) answers: 404 when nothing
\* matches, E11000 when a unique index refuses the new values, else 200
FacultyEditUpdate(self) ==
    /\ pc[self] = "editUpdate"
    /\ Quiet
    /\ LET match == {f \in faculty : f.id = req[self].id /\ f.isActive} IN
       IF match = {}
       THEN /\ Respond(self, 404, "NotFound")
            /\ UNCHANGED <<faculty, loc>>
       ELSE LET f == CHOOSE x \in match : TRUE
                g == UpdatedFaculty(f, req[self])
            IN  /\ FacultyDuplicateKeys(g, AllPendingFaculty) = {}
                /\ IF FacultyDuplicateKeys(g, faculty) # {}
                   THEN /\ Respond(self, ErrorStatus("DuplicateKey"), "DuplicateKey")
                        /\ UNCHANGED <<faculty, loc>>
                   ELSE /\ faculty' = (faculty \ {f}) \cup {g}
                        /\ loc' = [loc EXCEPT ![self].fdoc = {g}]
                        /\ Respond(self, 200, None)
    /\ pc' = [pc EXCEPT ![self] = "done"]
    /\ snap' = Touch(self)
    /\ UNCHANGED <<users, roles, nextId, authVars, extVars, req>>

FacultyEdit(self) ==
    \/ FacultyEditStart(self)
    \/ FacultyEditCheckRole(self)
    \/ FacultyEditUpdate(self)

\* ------------------------------------------------------------------------
\* Single-document handlers
\* ------------------------------------------------------------------------
\* DELETE /api/faculty/delete/:id: the profile is kept, marked inactive
FacultyDelete(id) ==
    /\ Quiet
    /\ \E f \in faculty :
          /\ f.id = id
          /\ f.isActive
          /\ faculty' = (faculty \ {f}) \cup {[f EXCEPT !.isActive = FALSE]}
    /\ snap' = Touch(None)
    /\ UNCHANGED <<users, roles, nextId, pc, req, loc, resp, authVars, extVars>>

\* DELETE /api/role/delete/:id: the role is kept, marked inactive
RoleDelete(r) ==
    /\ Quiet
    /\ roles[r] = "active"
    /\ roles' = [roles EXCEPT ![r] = "inactive"]
    /\ snap' = Touch(None)
    /\ UNCHANGED <<users, faculty, nextId, pc, req, loc, resp, authVars, extVars>>

\* DELETE /api/user/delete: the authenticated caller's own User is removed
UserDelete(u) ==
    /\ Quiet
    /\ u \in users
    /\ users' = users \ {u}
    /\ snap' = Touch(None)
    /\ UNCHANGED <<faculty, roles, nextId, pc, req, loc, resp, authVars, extVars>>

DefaultStudentPassword == "Student123"

\* POST /api/student/add: a User with role 'student' unless the mobile
\* number or the email is registered
StudentAdd(email, mobile) ==
    /\ Quiet
    /\ IdsLeft(1)
    /\ ~\E u \in users : u.mobile = mobile
    /\ ~\E u \in users : u.email = ToLowerCase(email)
    /\ LET d == [id |-> nextId, email |-> ToLowerCase(email), mobile |-> mobile,
                 role |-> "student",
                 password |-> HashPassword(DefaultStudentPassword),
                 isFirstLogin |-> DefaultIsFirstLogin]
       IN  /\ UserDuplicateKeys(d, AllPendingUsers) = {}
           /\ users' = users \cup {d}
    /\ nextId' = nextId + 1
    /\ snap' = Touch(None)
    /\ UNCHANGED <<faculty, roles, pc, req, loc, resp, authVars, extVars>>

\* PUT /api/student/edit/:id: new email and mobile number of a student,
\* unless another User holds them
StudentEdit(u, email, mobile) ==
    /\ Quiet
    /\ u \in users
    /\ u.role = "student"
    /\ mobile # u.mobile => ~\E v \in users : v.id # u.id /\ v.mobile = mobile
    /\ ToLowerCase(email) # u.email =>
          ~\E v \in users : v.id # u.id /\ v.email = ToLowerCase(email)
    /\ LET d == [u EXCEPT !.email = ToLowerCase(email), !.mobile = mobile]
       IN  /\ d # u
           /\ UserDuplicateKeys(d, AllPendingUsers) = {}
           /\ users' = (users \ {u}) \cup {d}
    /\ snap' = Touch(None)
    /\ UNCHANGED <<faculty, roles, nextId, pc, req, loc, resp, authVars, extVars>>

\* DELETE /api/student/delete/:id: only a User with role 'student' is removed
StudentDelete(u) ==
    /\ Quiet
    /\ u \in users
    /\ u.role = "student"
    /\ users' = users \ {u}
    /\ snap' = Touch(None)
    /\ UNCHANGED <<faculty, roles, nextId, pc, req, loc, resp, authVars, extVars>>

\* POST /api/auth/signup: a User with the default role and no mobile number,
\* unless the email is registered
Signup(email, password) ==
    /\ Quiet
    /\ IdsLeft(1)
    /\ ~\E u \in users : u.email = ToLowerCase(email)
    /\ LET d == [id |-> nextId, email |-> ToLowerCase(email), mobile |-> Undefined,
                 role |-> DefaultUserRole, password |-> HashPassword(password),
                 isFirstLogin |-> DefaultIsFirstLogin]
       IN  /\ UserDuplicateKeys(d, AllPendingUsers) = {}
           /\ users' = users \cup {d}
    /\ nextId' = nextId + 1
    /\ snap' = Touch(None)
    /\ UNCHANGED <<faculty, roles, pc, req, loc, resp, authVars, extVars>>

FacultyAdd(self) ==
    \/ FacultyAddStart(self)
    \/ FacultyAddCheckUser(self)
    \/ FacultyAddCheckRole(self)
    \/ FacultyAddGenIds(self)
    \/ FacultyAddValidateRole(self)
    \/ FacultyAddInsertFaculty(self)
    \/ FacultyAddSaveUser(self)
    \/ FacultyAddCommit(self)
    \/ FacultyAddPopulate(self)
    \/ FacultyAddAbort(self)

\* Concurrent faculty registrations beside the handlers that deactivate
\* roles, register students and delete users and faculty
Next ==
    \/ \E self \in Procs : FacultyAdd(self)
    \/ \E self \in Procs : Reset(self)
    \/ \E r \in RoleIds : RoleDelete(r)
    \/ \E email \in Emails, mobile \in Mobiles : StudentAdd(email, mobile)
    \/ \E u \in users : UserDelete(u)
    \/ \E id \in 1..MaxId : FacultyDelete(id)

Spec == Init /\ [][Next]_vars

\* One request at a time through the faculty handlers, interleaved with
\* every handler that writes the User, Faculty or Role collection
NextLink ==
    \/ FacultyAdd("p1")
    \/ FacultyEdit("p1")
    \/ Reset("p1")
    \/ \E id \in 1..MaxId : FacultyDelete(id)
    \/ \E r \in RoleIds : RoleDelete(r)
    \/ \E u \in users : UserDelete(u)
    \/ \E email \in Emails, mobile \in Mobiles : StudentAdd(email, mobile)
    \/ \E u \in users, email \in Emails, mobile \in Mobiles :
          StudentEdit(u, email, mobile)
    \/ \E u \in users : StudentDelete(u)
    \/ \E email \in Emails, password \in Passwords : Signup(email, password)

SpecLink == Init /\ [][NextLink]_vars

\* Faculty requests one after another: registrations, complete and
\* incomplete, edits and deletions, and the deactivation of roles
NextRegister ==
    \/ FacultyAdd("p1")
    \/ \E missing \in RequiredFields, email \in Emails, role \in RoleIds :
          FacultyAddIncomplete("p1", missing, email, role)
    \/ FacultyEdit("p1")
    \/ Reset("p1")
    \/ \E id \in 1..MaxId : FacultyDelete(id)
    \/ \E r \in RoleIds : RoleDelete(r)

SpecRegister == Init /\ [][NextRegister]_vars

\* Every step of the handler after the request has arrived: the continuation
\* of an awaited driver call, run once the call has settled
FacultyAddStep(self) ==
    \/ FacultyAddCheckUser(self)
    \/ FacultyAddCheckRole(self)
    \/ FacultyAddGenIds(self)
    \/ FacultyAddValidateRole(self)
    \/ FacultyAddInsertFaculty(self)
    \/ FacultyAddSaveUser(self)
    \/ FacultyAddCommit(self)
    \/ FacultyAddPopulate(self)
    \/ FacultyAddAbort(self)

\* Concurrent registrations beside the deactivation of roles
NextTxn ==
    \/ \E self \in Procs : FacultyAdd(self)
    \/ \E self \in Procs : Reset(self)
    \/ \E r \in RoleIds : RoleDelete(r)

\* Every awaited call of the driver settles and the event loop then runs its
\* continuation, whatever the other connection does meanwhile; a response,
\* once written, is delivered
SpecTxn ==
    /\ Init
    /\ [][NextTxn]_vars
    /\ \A self \in Procs : SF_vars(FacultyAddStep(self)) /\ WF_vars(Reset(self))

\* ------------------------------------------------------------------------
\* Requests through the authorization middleware
\* ------------------------------------------------------------------------
\* What a client can put after "Bearer ": a token it was issued, or a token
\* it signed itself, with any role
Presentable ==
    tokens \cup {[t EXCEPT !.sig = "forged", !.role = "admin"] : t \in tokens}

Headers ==
    {NoHeader} \cup
    {[scheme |-> sch, token |-> t] : sch \in {"Bearer", "Basic"}, t \in Presentable}

\* POST /api/auth/signup as the client sees it: the User is created and a
\* token for it is returned
SignupForToken(email, password) ==
    /\ nextId <= MaxId
    /\ Cardinality(tokens) < MaxTokens
    /\ ~\E u \in users : u.email = ToLowerCase(email)
    /\ LET d == [id |-> nextId, email |-> ToLowerCase(email), mobile |-> Undefined,
                 role |-> DefaultUserRole, password |-> HashPassword(password),
                 isFirstLogin |-> DefaultIsFirstLogin]
       IN  /\ users' = users \cup {d}
           /\ tokens' = tokens \cup {JwtSign(d)}
    /\ nextId' = nextId + 1
    /\ UNCHANGED <<faculty, roles, procVars, now, mw, extVars>>

\* POST /api/auth/login: a new token for a User whose password matches
Login(email, password) ==
    /\ Cardinality(tokens) < MaxTokens
    /\ \E u \in users :
          /\ u.email = email
          /\ ComparePassword(u, password)
          /\ JwtSign(u) \notin tokens
          /\ tokens' = tokens \cup {JwtSign(u)}
    /\ UNCHANGED <<dbVars, procVars, now, mw, extVars>>

\* Time passes
Tick ==
    /\ now + TickHours <= MaxClock
    /\ now' = now + TickHours
    /\ UNCHANGED <<dbVars, procVars, tokens, mw, extVars>>

\* The role stored for a user changes after its tokens were issued
SetUserRole(u, r) ==
    /\ u \in users
    /\ r # u.role
    /\ users' = (users \ {u}) \cup {[u EXCEPT !.role = r]}
    /\ UNCHANGED <<faculty, roles, nextId, procVars, authVars, extVars>>

\* A request reaches a protected route: the middleware answers or calls next()
Request(variant, h) ==
    /\ mw.next = 1 => mw.ran
    /\ LET a == Middleware(variant, h) IN
          mw' = [variant |-> variant, header |-> h, status |-> a.status,
                 next |-> a.next, user |-> a.user, ran |-> FALSE]
    /\ UNCHANGED <<dbVars, procVars, tokens, now, extVars>>

\* DELETE /api/user/delete behind auth: User.findByIdAndDelete(req.user._id)
HandlerUserDelete ==
    /\ mw.next = 1 /\ ~mw.ran
    /\ mw.variant = "auth"
    /\ users' = {u \in users : u.id # mw.user.id}
    /\ mw' = [mw EXCEPT !.ran = TRUE]
    /\ UNCHANGED <<faculty, roles, nextId, procVars, tokens, now, extVars>>

\* Any other handler behind the middleware, writing no User
HandlerOther ==
    /\ mw.next = 1 /\ ~mw.ran
    /\ mw' = [mw EXCEPT !.ran = TRUE]
    /\ UNCHANGED <<dbVars, procVars, tokens, now, extVars>>

NextAuth ==
    \/ \E email \in Emails, password \in Passwords : SignupForToken(email, password)
    \/ \E email \in Emails, password \in Passwords : Login(email, password)
    \/ Tick
    \/ \E u \in users, r \in UserRoles : SetUserRole(u, r)
    \/ \E variant \in {"auth", "adminAuth", "facultyAuth"}, h \in Headers :
          Request(variant, h)
    \/ HandlerUserDelete
    \/ HandlerOther

SpecAuth == Init /\ [][NextAuth]_vars

\* ------------------------------------------------------------------------
\* Accounts: signup, login, change-password (routes/auth.js, routes/student.js)
\* ------------------------------------------------------------------------
\* A field the request body leaves out
EmptyPassword == ""

ForbiddenFacultyPassword == "Fcl@1234"

AccountPasswords ==
    {EmptyPassword, "pw1", "Secret#1", DefaultFacultyPassword, ForbiddenFacultyPassword}

SignupPasswords == {EmptyPassword, "pw1", "Secret#1"}

UserPasswords == SignupPasswords \cup {DefaultFacultyPassword}

AccountEmails == Emails \cup {NoString}

\* Emails as typed at login: as registered, or as the server returned them
LoginEmails == AccountEmails \cup {ToLowerCase(e) : e \in Emails}

\* password.length
PasswordLength(password) ==
    CASE password = EmptyPassword -> 0
      [] password = "pw1" -> 3
      [] password = "Secret#1" -> 8
      [] password = ForbiddenFacultyPassword -> 8
      [] password = DefaultFacultyPassword -> 9
      [] password = DefaultStudentPassword -> 10

\* User.findOne({ email }): the schema lower-cases the email of the filter
FindUserByEmail(email) == {u \in users : u.email = ToLowerCase(email)}

\* Faculty.findOne({ email })
FindFacultyByEmail(email) == {f \in faculty : f.email = ToLowerCase(email)}

Answer(op, status) == [NoOut EXCEPT !.op = op, !.status = status]

\* The response has been delivered
Deliver ==
    /\ out # NoOut
    /\ out' = NoOut
    /\ UNCHANGED <<dbVars, procVars, authVars, signed, changed, classVars,
                   userVars, noteVars>>

\* POST /api/auth/signup
SignupRequest(email, password) ==
    /\ Quiet
    /\ out = NoOut
    /\ IF email = NoString \/ password = EmptyPassword
       THEN /\ out' = Answer("signup", 400)
            /\ UNCHANGED <<users, nextId, signed>>
       ELSE IF FindUserByEmail(email) # {}
       THEN /\ out' = Answer("signup", 400)
            /\ UNCHANGED <<users, nextId, signed>>
       ELSE /\ IdsLeft(1)
            /\ LET d == [id |-> nextId, email |-> ToLowerCase(email),
                         mobile |-> Undefined, role |-> DefaultUserRole,
                         password |-> HashPassword(password),
                         isFirstLogin |-> DefaultIsFirstLogin]
               IN  /\ users' = users \cup {d}
                   /\ out' = [Answer("signup", 201) EXCEPT
                                 !.userId = d.id, !.token = JwtSign(d)]
                   /\ signed' = [signed EXCEPT ![email] =
                                    [userId |-> d.id, password |-> password]]
            /\ nextId' = nextId + 1
    /\ UNCHANGED <<faculty, roles, procVars, authVars, changed, classVars,
                   userVars, noteVars>>

\* Faulty variant, for comparison: a login that does not compare the password
LoginAnswerAnyPassword(email, password) ==
    IF email = NoString \/ password = EmptyPassword
    THEN Answer("login", 400)
    ELSE IF FindUserByEmail(email) = {} THEN Answer("login", 401)
    ELSE LET u == CHOOSE u \in FindUserByEmail(email) : TRUE
         IN  [Answer("login", 200) EXCEPT
                 !.userId = u.id, !.token = JwtSign(u)]

\* POST /api/auth/login: the response
LoginAnswer(email, password) ==
    IF email = NoString \/ password = EmptyPassword
    THEN Answer("login", 400)
    ELSE IF FindUserByEmail(email) = {} THEN Answer("login", 401)
    ELSE LET u == CHOOSE u \in FindUserByEmail(email) : TRUE
         IN  IF ~ComparePassword(u, password)
             THEN Answer("login", 401)
             ELSE [Answer("login", 200) EXCEPT
                      !.userId = u.id, !.token = JwtSign(u)]

LoginRequest(email, password) ==
    /\ Quiet
    /\ out = NoOut
    /\ out' = LoginAnswer(email, password)
    /\ UNCHANGED <<dbVars, procVars, authVars, signed, changed, classVars,
                   userVars, noteVars>>

\* Faulty variant, for comparison: a faculty login that does not look at isActive
FacultyLoginAnswerInactiveToo(email, password) ==
    IF email = NoString \/ password = EmptyPassword
    THEN Answer("faculty-login", 400)
    ELSE LET found == {u \in FindUserByEmail(email) : u.role = "faculty"} IN
         IF found = {} THEN Answer("faculty-login", 401)
         ELSE LET u == CHOOSE u \in found : TRUE IN
              IF ~ComparePassword(u, password)
              THEN Answer("faculty-login", 401)
              ELSE IF FindFacultyByEmail(email) = {}
              THEN Answer("faculty-login", 401)
              ELSE [Answer("faculty-login", 200) EXCEPT
                       !.userId = u.id,
                       !.token = [JwtSign(u) EXCEPT !.role = "faculty"],
                       !.isFirstLogin = u.isFirstLogin]

\* POST /api/auth/faculty/login: the response
FacultyLoginAnswer(email, password) ==
    IF email = NoString \/ password = EmptyPassword
    THEN Answer("faculty-login", 400)
    ELSE LET found == {u \in FindUserByEmail(email) : u.role = "faculty"} IN
         IF found = {} THEN Answer("faculty-login", 401)
         ELSE LET u == CHOOSE u \in found : TRUE IN
              IF ~ComparePassword(u, password)
              THEN Answer("faculty-login", 401)
              ELSE IF FindFacultyByEmail(email) = {}
              THEN Answer("faculty-login", 401)
              ELSE IF \E f \in FindFacultyByEmail(email) : ~f.isActive
              THEN Answer("faculty-login", 401)
              ELSE [Answer("faculty-login", 200) EXCEPT
                       !.userId = u.id,
                       !.token = [JwtSign(u) EXCEPT !.role = "faculty"],
                       !.isFirstLogin = u.isFirstLogin]

FacultyLoginRequest(email, password) ==
    /\ Quiet
    /\ out = NoOut
    /\ out' = FacultyLoginAnswer(email, password)
    /\ UNCHANGED <<dbVars, procVars, authVars, signed, changed, classVars,
                   userVars, noteVars>>

MinPasswordLength == 6

PasswordAnswer(op, u, status) ==
    [NoOut EXCEPT !.op = op, !.userId = u.id, !.status = status]

\* Faulty variant, for comparison: the new password is stored as typed
StorePasswordAsTyped(u, newPassword) ==
    [u EXCEPT !.password = <<"plain", newPassword>>]

\* user.password = newPassword; user.save()
StorePassword(u, newPassword) == [u EXCEPT !.password = HashPassword(newPassword)]

\* POST /api/auth/change-password and POST /api/student/change-password, for
\* the caller the middleware has just resolved
ChangePasswordRequest(op, u, currentPassword, newPassword) ==
    /\ Quiet
    /\ out = NoOut
    /\ u \in users
    /\ IF currentPassword = EmptyPassword \/ newPassword = EmptyPassword
       THEN /\ out' = PasswordAnswer(op, u, 400)
            /\ UNCHANGED <<users, changed, signed>>
       ELSE IF PasswordLength(newPassword) < MinPasswordLength
       THEN /\ out' = PasswordAnswer(op, u, 400)
            /\ UNCHANGED <<users, changed, signed>>
       ELSE IF ~ComparePassword(u, currentPassword)
       THEN /\ out' = PasswordAnswer(op, u, 400)
            /\ UNCHANGED <<users, changed, signed>>
       ELSE /\ users' = (users \ {u}) \cup {StorePassword(u, newPassword)}
            /\ out' = PasswordAnswer(op, u, 200)
            /\ changed' = [userId |-> u.id, old |-> currentPassword,
                           new |-> newPassword]
            /\ signed' = [e \in Emails |->
                             IF signed[e].userId = u.id THEN NoSigned ELSE signed[e]]
    /\ UNCHANGED <<faculty, roles, nextId, procVars, authVars, classVars, userVars,
                   noteVars>>

\* POST /api/auth/faculty/change-password
FacultyChangePasswordRequest(u, currentPassword, newPassword) ==
    /\ Quiet
    /\ out = NoOut
    /\ u \in users
    /\ LET op == "faculty-change-password" IN
       IF currentPassword = EmptyPassword \/ newPassword = EmptyPassword
       THEN /\ out' = PasswordAnswer(op, u, 400)
            /\ UNCHANGED <<users, changed, signed>>
       ELSE IF PasswordLength(newPassword) < MinPasswordLength
       THEN /\ out' = PasswordAnswer(op, u, 400)
            /\ UNCHANGED <<users, changed, signed>>
       ELSE IF u.role # "faculty"
       THEN /\ out' = PasswordAnswer(op, u, 401)
            /\ UNCHANGED <<users, changed, signed>>
       ELSE IF ~ComparePassword(u, currentPassword)
       THEN /\ out' = PasswordAnswer(op, u, 401)
            /\ UNCHANGED <<users, changed, signed>>
       ELSE IF newPassword = ForbiddenFacultyPassword
       THEN /\ out' = PasswordAnswer(op, u, 400)
            /\ UNCHANGED <<users, changed, signed>>
       ELSE /\ users' = (users \ {u}) \cup
                           {[StorePassword(u, newPassword) EXCEPT !.isFirstLogin = FALSE]}
            /\ out' = PasswordAnswer(op, u, 200)
            /\ changed' = [userId |-> u.id, old |-> currentPassword,
                           new |-> newPassword]
            /\ signed' = [e \in Emails |->
                             IF signed[e].userId = u.id THEN NoSigned ELSE signed[e]]
    /\ UNCHANGED <<faculty, roles, nextId, procVars, authVars, classVars, userVars,
                   noteVars>>

NextAccount ==
    \/ \E u \in users : SetUserRole(u, "faculty")
    \/ \E u \in users : UserDelete(u)
    \/ Deliver
    \/ \E email \in AccountEmails, password \in SignupPasswords :
          SignupRequest(email, password)
    \/ \E email \in LoginEmails, password \in UserPasswords :
          LoginRequest(email, password)
    \/ \E op \in {"change-password", "student-change-password"}, u \in users,
          currentPassword \in UserPasswords, newPassword \in UserPasswords :
          ChangePasswordRequest(op, u, currentPassword, newPassword)
    \/ \E u \in users, currentPassword \in UserPasswords,
          newPassword \in UserPasswords :
          FacultyChangePasswordRequest(u, currentPassword, newPassword)

SpecAccount == Init /\ [][NextAccount]_vars

NextFacultyLogin ==
    \/ FacultyAdd("p1")
    \/ Reset("p1")
    \/ \E id \in 1..MaxId : FacultyDelete(id)
    \/ \E u \in users : SetUserRole(u, "faculty")
    \/ Deliver
    \/ \E email \in LoginEmails, password \in AccountPasswords :
          FacultyLoginRequest(email, password)
    \/ \E u \in users, currentPassword \in AccountPasswords,
          newPassword \in AccountPasswords :
          FacultyChangePasswordRequest(u, currentPassword, newPassword)

SpecFacultyLogin == Init /\ [][NextFacultyLogin]_vars

\* ------------------------------------------------------------------------
\* Classes (models/class.js, class routes)
\* ------------------------------------------------------------------------
ClassNames == {<<"m">>, <<"M">>}

Sections == {<<"a">>, <<" ", "A", " ">>}

AcademicYears == {"2024-2025"}

Capacities == {30}

RECURSIVE TrimStart(_)
TrimStart(s) == IF s # <<>> /\ Head(s) = " " THEN TrimStart(Tail(s)) ELSE s

RECURSIVE TrimEnd(_)
TrimEnd(s) ==
    IF s # <<>> /\ s[Len(s)] = " " THEN TrimEnd(SubSeq(s, 1, Len(s) - 1)) ELSE s

\* String.prototype.trim
Trim(s) == TrimEnd(TrimStart(s))

\* The triple as the handlers write it and look it up
ClassKey(r) ==
    [name |-> Trim(r.name), section |-> ToUpperCase(Trim(r.section)),
     academicYear |-> r.academicYear]

KeyOf(c) == [name |-> c.name, section |-> c.section, academicYear |-> c.academicYear]

\* Comparison under collation { locale: 'en', strength: 2 }
Fold(key) ==
    [name |-> ToLowerCase(key.name), section |-> ToLowerCase(key.section),
     academicYear |-> key.academicYear]

\* Faulty variant, for comparison: the document being edited is not excluded
FindClassByKeyAnyId(key, id) == {c \in classes : KeyOf(c) = key}

\* Class.findOne({ _id: { $ne: id }, name, section, academicYear })
FindClassByKey(key, id) == {c \in classes : c.id # id /\ KeyOf(c) = key}

\* unique_class_section_year refuses the write of document id with this triple
IndexViolated(key, id) ==
    classIndex /\ \E c \in classes : c.id # id /\ Fold(KeyOf(c)) = Fold(key)

\* Faulty variant, for comparison: a class teacher reference that is never looked up
TeacherExistsUnchecked(id) == TRUE

\* Faculty.findById(classTeacher) finds a document
TeacherExists(id) == \E f \in faculty : f.id = id

ClassIdle == \A p \in ClassProcs : cpc[p].pc = "idle"

ClassDelivered == \A p \in ClassProcs : cpc[p].pc # "done"

\* collection.dropIndexes() when the model is compiled
DropIndexes ==
    /\ ClassIdle
    /\ classIndex
    /\ classIndex' = FALSE
    /\ UNCHANGED <<dbVars, procVars, authVars, acctVars, classes, cpc, userVars,
                   noteVars>>

\* The index build of the model's init; it fails while duplicates exist
EnsureIndexes ==
    /\ ClassIdle
    /\ ~classIndex
    /\ \A c, d \in classes : Fold(KeyOf(c)) = Fold(KeyOf(d)) => c = d
    /\ classIndex' = TRUE
    /\ UNCHANGED <<dbVars, procVars, authVars, acctVars, classes, cpc, userVars,
                   noteVars>>

ClassRespond(p, status, error) ==
    [cpc EXCEPT ![p].pc = "done", ![p].status = status, ![p].error = error]

\* POST /api/class/add and PUT /api/class/edit/:id arrive
ClassStart(self) ==
    /\ cpc[self].pc = "idle"
    /\ ClassDelivered
    /\ self = "c2" => cpc["c1"].pc # "idle"
    /\ \A p \in Procs : pc[p] = "idle"
    /\ faculty # {}
    /\ \E op \in {"add", "edit"}, name \in ClassNames, section \in Sections,
          academicYear \in AcademicYears, capacity \in Capacities,
          classTeacher \in {f.id : f \in faculty} \cup {nextId} :
          \E id \in (IF op = "add" THEN {0} ELSE {c.id : c \in classes} \cup {nextId}) :
             cpc' = [cpc EXCEPT ![self] =
                        [pc |-> "check", op |-> op, id |-> id, name |-> name,
                         section |-> section, academicYear |-> academicYear,
                         capacity |-> capacity, classTeacher |-> classTeacher,
                         status |-> 0, error |-> None]]
    /\ UNCHANGED <<dbVars, procVars, authVars, acctVars, classes, classIndex,
                   userVars, noteVars>>

\* class add: Faculty.findById(classTeacher), then the duplicate pre-check
ClassAddCheck(self) ==
    /\ cpc[self].pc = "check" /\ cpc[self].op = "add"
    /\ ClassDelivered
    /\ cpc' = IF ~TeacherExists(cpc[self].classTeacher)
              THEN ClassRespond(self, 400, "FacultyNotFound")
              ELSE IF FindClassByKey(ClassKey(cpc[self]), 0) # {}
              THEN ClassRespond(self, 400, "DuplicateClass")
              ELSE [cpc EXCEPT ![self].pc = "write"]
    /\ UNCHANGED <<dbVars, procVars, authVars, acctVars, classes, classIndex,
                   userVars, noteVars>>

NewClass(r, id) ==
    [id |-> id, name |-> Trim(r.name), section |-> ToUpperCase(Trim(r.section)),
     academicYear |-> r.academicYear, classTeacher |-> r.classTeacher,
     capacity |-> r.capacity]

\* class add: classObj.save()
ClassAddSave(self) ==
    /\ cpc[self].pc = "write" /\ cpc[self].op = "add"
    /\ ClassDelivered
    /\ IF IndexViolated(ClassKey(cpc[self]), 0)
       THEN /\ cpc' = ClassRespond(self, 400, "DuplicateClass")
            /\ UNCHANGED <<classes, nextId>>
       ELSE /\ nextId <= MaxId
            /\ classes' = classes \cup {NewClass(cpc[self], nextId)}
            /\ nextId' = nextId + 1
            /\ cpc' = [ClassRespond(self, 201, None) EXCEPT ![self].id = nextId]
    /\ UNCHANGED <<users, faculty, roles, procVars, authVars, acctVars, classIndex,
                   userVars, noteVars>>

\* class edit: Class.findById(id), then the duplicate pre-check on other classes
ClassEditCheck(self) ==
    /\ cpc[self].pc = "check" /\ cpc[self].op = "edit"
    /\ ClassDelivered
    /\ cpc' = IF ~\E c \in classes : c.id = cpc[self].id
              THEN ClassRespond(self, 404, "ClassNotFound")
              ELSE IF FindClassByKey(ClassKey(cpc[self]), cpc[self].id) # {}
              THEN ClassRespond(self, 400, "DuplicateClass")
              ELSE [cpc EXCEPT ![self].pc = "write"]
    /\ UNCHANGED <<dbVars, procVars, authVars, acctVars, classes, classIndex,
                   userVars, noteVars>>

\* class edit: Class.findByIdAndUpdate(id, {...}, { runValidators: true })
ClassEditUpdate(self) ==
    /\ cpc[self].pc = "write" /\ cpc[self].op = "edit"
    /\ ClassDelivered
    /\ IF ~TeacherExists(cpc[self].classTeacher)
       THEN /\ cpc' = ClassRespond(self, 400, "ValidationError")
            /\ UNCHANGED classes
       ELSE IF IndexViolated(ClassKey(cpc[self]), cpc[self].id)
       THEN /\ cpc' = ClassRespond(self, 400, "DuplicateClass")
            /\ UNCHANGED classes
       ELSE /\ classes' = {c \in classes : c.id # cpc[self].id}
                            \cup {NewClass(cpc[self], cpc[self].id)}
            /\ cpc' = ClassRespond(self, 200, None)
    /\ UNCHANGED <<dbVars, procVars, authVars, acctVars, classIndex, userVars,
                   noteVars>>

\* The response has been delivered
ClassReset(self) ==
    /\ cpc[self].pc = "done"
    /\ cpc' = [cpc EXCEPT ![self] = NoClassReq]
    /\ UNCHANGED <<dbVars, procVars, authVars, acctVars, classes, classIndex,
                   userVars, noteVars>>

ClassRequest(self) ==
    \/ ClassStart(self)
    \/ ClassAddCheck(self)
    \/ ClassAddSave(self)
    \/ ClassEditCheck(self)
    \/ ClassEditUpdate(self)
    \/ ClassReset(self)

\* The class teacher is registered before classes are managed
RegisterTeacher ==
    /\ ClassIdle
    /\ classes = {}
    /\ pc["p1"] = "idle" => faculty = {}
    /\ FacultyAdd("p1")

NextClass ==
    \/ RegisterTeacher
    \/ Reset("p1")
    \/ DropIndexes
    \/ EnsureIndexes
    \/ \E self \in ClassProcs : ClassRequest(self)

SpecClass == Init /\ [][NextClass]_vars

\* Class requests beside the registration and the deletion of the teacher
NextTeacher ==
    \/ RegisterTeacher
    \/ Reset("p1")
    \/ \E id \in 1..MaxId : FacultyDelete(id)
    \/ \E self \in ClassProcs : ClassRequest(self)

SpecTeacher == Init /\ [][NextTeacher]_vars

\* ------------------------------------------------------------------------
\* Concurrent writes of unique fields (signup, student, user details, role)
\* ------------------------------------------------------------------------
RoleNames == {<<"t">>, <<"h", " ">>}

UserOps ==
    {"signup", "student-add", "add-details", "edit-details", "student-edit",
     "role-add", "role-edit"}

UsersDelivered == \A p \in UserProcs : upc[p].pc # "done"

UserRespond(p, status, error) ==
    [upc EXCEPT ![p].pc = "done", ![p].status = status, ![p].error = error]

UserProceed(p) == [upc EXCEPT ![p].pc = "write"]

\* Faulty variant, for comparison: only active roles count against a name
RoleIndexViolatedActiveOnly(name, id) ==
    \E r \in RoleIds : r # id /\ roles[r] = "active" /\ roleNames[r] = name

\* models/role.js: unique index on name
RoleIndexViolated(name, id) ==
    \E r \in RoleIds : r # id /\ roles[r] # "absent" /\ roleNames[r] = name

\* A write of a unique key that a transaction has written and not yet
\* committed waits for that transaction (the guard on AllPendingUsers below).

\* A request arrives; the id is the caller (user details) or req.params.id
UserStart(self) ==
    /\ upc[self].pc = "idle"
    /\ UsersDelivered
    /\ self = "u2" => upc["u1"].pc # "idle"
    /\ \E op \in UserOps, email \in Emails, mobile \in Mobiles, name \in RoleNames :
          \E id \in (CASE op \in {"add-details", "edit-details", "student-edit"}
                            -> {u.id : u \in users}
                      [] op = "role-edit" -> RoleIds
                      [] OTHER -> {0}) :
             /\ op \in {"signup", "student-add", "student-edit"} \/ email = <<"a">>
             /\ op \notin {"signup", "role-add", "role-edit"} \/ mobile = "m1"
             /\ op \in {"role-add", "role-edit"} \/ name = <<"t">>
             /\ upc' = [upc EXCEPT ![self] =
                           [pc |-> "check", op |-> op, id |-> id, email |-> email,
                            mobile |-> mobile, name |-> name, status |-> 0,
                            error |-> None]]
    /\ UNCHANGED <<dbVars, procVars, authVars, acctVars, classVars, roleNames,
                   noteVars>>

\* POST /api/auth/signup as two steps: User.findOne({ email }), user.save()
SignupConcurrent(self) ==
    /\ upc[self].op = "signup"
    /\ UsersDelivered
    /\ LET r == upc[self]
           d == [id |-> nextId, email |-> ToLowerCase(r.email),
                 mobile |-> Undefined, role |-> DefaultUserRole,
                 password |-> HashPassword("pw1"),
                 isFirstLogin |-> DefaultIsFirstLogin]
       IN  \/ /\ r.pc = "check"
              /\ upc' = IF FindUserByEmail(r.email) # {}
                         THEN UserRespond(self, 400, "UserExists")
                         ELSE UserProceed(self)
              /\ UNCHANGED <<users, nextId>>
           \/ /\ r.pc = "write"
              /\ UserDuplicateKeys(d, AllPendingUsers) = {}
              /\ IF UserDuplicateKeys(d, users) # {}
                 THEN /\ upc' = UserRespond(self, 500, "E11000")
                      /\ UNCHANGED <<users, nextId>>
                 ELSE /\ nextId <= MaxId
                      /\ users' = users \cup {d}
                      /\ nextId' = nextId + 1
                      /\ upc' = UserRespond(self, 201, None)
    /\ UNCHANGED <<faculty, roles, procVars, authVars, acctVars, classVars,
                   roleNames, noteVars>>

\* POST /api/student/add as two steps: the two pre-checks, user.save()
StudentAddRequest(self) ==
    /\ upc[self].op = "student-add"
    /\ UsersDelivered
    /\ LET r == upc[self]
           d == [id |-> nextId, email |-> ToLowerCase(r.email), mobile |-> r.mobile,
                 role |-> "student",
                 password |-> HashPassword(DefaultStudentPassword),
                 isFirstLogin |-> DefaultIsFirstLogin]
       IN  \/ /\ r.pc = "check"
              /\ upc' = IF \E u \in users : u.mobile = r.mobile
                         THEN UserRespond(self, 400, "MobileRegistered")
                         ELSE IF \E u \in users : u.email = ToLowerCase(r.email)
                         THEN UserRespond(self, 400, "EmailRegistered")
                         ELSE UserProceed(self)
              /\ UNCHANGED <<users, nextId>>
           \/ /\ r.pc = "write"
              /\ UserDuplicateKeys(d, AllPendingUsers) = {}
              /\ IF UserDuplicateKeys(d, users) # {}
                 THEN /\ upc' = UserRespond(self, 500, "E11000")
                      /\ UNCHANGED <<users, nextId>>
                 ELSE /\ nextId <= MaxId
                      /\ users' = users \cup {d}
                      /\ nextId' = nextId + 1
                      /\ upc' = UserRespond(self, 200, None)
    /\ UNCHANGED <<faculty, roles, procVars, authVars, acctVars, classVars,
                   roleNames, noteVars>>

\* POST /api/user/add-details and PUT /api/user/edit-details as two steps:
\* User.findOne({ mobileNumber }), User.findByIdAndUpdate(req.user._id, ...).
\* req.user carries no mobileNumber, so edit-details always looks the number up.
UserDetails(self) ==
    /\ upc[self].op \in {"add-details", "edit-details"}
    /\ UsersDelivered
    /\ LET r == upc[self]
       IN  \/ /\ r.pc = "check"
              /\ upc' = IF \E u \in users : u.mobile = r.mobile
                         THEN UserRespond(self, 400, "MobileRegistered")
                         ELSE UserProceed(self)
              /\ UNCHANGED users
           \/ /\ r.pc = "write"
              /\ \E u \in users : u.id = r.id
              /\ LET u == CHOOSE u \in users : u.id = r.id
                     d == [u EXCEPT !.mobile = r.mobile]
                 IN  /\ UserDuplicateKeys(d, AllPendingUsers) = {}
                     /\ IF UserDuplicateKeys(d, users) # {}
                        THEN /\ upc' = UserRespond(self, 500, "E11000")
                             /\ UNCHANGED users
                        ELSE /\ users' = (users \ {u}) \cup {d}
                             /\ upc' = UserRespond(self, 200, None)
    /\ UNCHANGED <<faculty, roles, nextId, procVars, authVars, acctVars, classVars,
                   roleNames, noteVars>>

\* PUT /api/student/edit/:id as two steps: findById and the pre-checks that
\* exclude the student, student.save()
StudentEditRequest(self) ==
    /\ upc[self].op = "student-edit"
    /\ UsersDelivered
    /\ \E u \in users : u.id = upc[self].id
    /\ LET r == upc[self]
           u == CHOOSE u \in users : u.id = r.id
           d == [u EXCEPT !.mobile = r.mobile, !.email = ToLowerCase(r.email)]
       IN  \/ /\ r.pc = "check"
              /\ upc' = IF u.role # "student"
                         THEN UserRespond(self, 400, "NotStudent")
                         ELSE IF r.mobile # u.mobile
                                 /\ \E v \in users : v.id # r.id /\ v.mobile = r.mobile
                         THEN UserRespond(self, 400, "MobileRegistered")
                         ELSE IF ToLowerCase(r.email) # u.email
                                 /\ \E v \in users :
                                       v.id # r.id /\ v.email = ToLowerCase(r.email)
                         THEN UserRespond(self, 400, "EmailRegistered")
                         ELSE UserProceed(self)
              /\ UNCHANGED users
           \/ /\ r.pc = "write"
              /\ UserDuplicateKeys(d, AllPendingUsers) = {}
              /\ IF UserDuplicateKeys(d, users) # {}
                 THEN /\ upc' = UserRespond(self, 500, "E11000")
                      /\ UNCHANGED users
                 ELSE /\ users' = (users \ {u}) \cup {d}
                      /\ upc' = UserRespond(self, 200, None)
    /\ UNCHANGED <<faculty, roles, nextId, procVars, authVars, acctVars, classVars,
                   roleNames, noteVars>>

\* POST /api/role/add as two steps: Role.findOne({ name: name.trim() }), role.save()
RoleAdd(self) ==
    /\ upc[self].op = "role-add"
    /\ UsersDelivered
    /\ LET r == upc[self]
       IN  \/ /\ r.pc = "check"
              /\ upc' = IF RoleIndexViolated(Trim(r.name), Undefined)
                         THEN UserRespond(self, 400, "RoleExists")
                         ELSE UserProceed(self)
              /\ UNCHANGED <<roles, roleNames>>
           \/ /\ r.pc = "write"
              /\ IF RoleIndexViolated(Trim(r.name), Undefined)
                 THEN /\ upc' = UserRespond(self, 500, "E11000")
                      /\ UNCHANGED <<roles, roleNames>>
                 ELSE /\ \E id \in RoleIds : roles[id] = "absent"
                      /\ LET id == CHOOSE id \in RoleIds : roles[id] = "absent"
                         IN  /\ roles' = [roles EXCEPT ![id] = "active"]
                             /\ roleNames' = [roleNames EXCEPT ![id] = Trim(r.name)]
                      /\ upc' = UserRespond(self, 200, None)
    /\ UNCHANGED <<users, faculty, nextId, procVars, authVars, acctVars, classVars,
                   noteVars>>

\* PUT /api/role/edit/:id as two steps: the active role is looked up and the
\* pre-check excludes it, role.save()
RoleEdit(self) ==
    /\ upc[self].op = "role-edit"
    /\ UsersDelivered
    /\ LET r == upc[self]
       IN  \/ /\ r.pc = "check"
              /\ upc' = IF roles[r.id] # "active"
                         THEN UserRespond(self, 404, "RoleNotFound")
                         ELSE IF r.name # roleNames[r.id]
                                 /\ RoleIndexViolated(Trim(r.name), r.id)
                         THEN UserRespond(self, 400, "RoleNameExists")
                         ELSE UserProceed(self)
              /\ UNCHANGED roleNames
           \/ /\ r.pc = "write"
              /\ IF RoleIndexViolated(Trim(r.name), r.id)
                 THEN /\ upc' = UserRespond(self, 500, "E11000")
                      /\ UNCHANGED roleNames
                 ELSE /\ roleNames' = [roleNames EXCEPT ![r.id] = Trim(r.name)]
                      /\ upc' = UserRespond(self, 200, None)
    /\ UNCHANGED <<dbVars, procVars, authVars, acctVars, classVars, noteVars>>

\* The response has been delivered
UserReset(self) ==
    /\ upc[self].pc = "done"
    /\ upc' = [upc EXCEPT ![self] = NoUserReq]
    /\ UNCHANGED <<dbVars, procVars, authVars, acctVars, classVars, roleNames,
                   noteVars>>

UserRequest(self) ==
    \/ UserStart(self)
    \/ upc[self].pc \in {"check", "write"} /\ SignupConcurrent(self)
    \/ upc[self].pc \in {"check", "write"} /\ StudentAddRequest(self)
    \/ upc[self].pc \in {"check", "write"} /\ UserDetails(self)
    \/ upc[self].pc \in {"check", "write"} /\ StudentEditRequest(self)
    \/ upc[self].pc \in {"check", "write"} /\ RoleAdd(self)
    \/ upc[self].pc \in {"check", "write"} /\ RoleEdit(self)
    \/ UserReset(self)

NextUsers == \E self \in UserProcs : UserRequest(self)

SpecUsers == Init /\ [][NextUsers]_vars

\* Role add and role edit requests beside role delete
NextRoles ==
    \/ \E r \in RoleIds : RoleDelete(r)
    \/ \E self \in UserProcs :
          /\ UserRequest(self)
          /\ upc'[self].pc = "check" => upc'[self].op \in {"role-add", "role-edit"}

SpecRoles == Init /\ [][NextRoles]_vars

\* One writer of the User collection at a time beside one faculty
\* registration; SpecUsers interleaves the writers with each other
NextUnique ==
    \/ /\ FacultyAdd("p1")
       /\ pc["p1"] = "idle" =>
             req'["p1"].department = <<"m", "a">> /\ req'["p1"].role = "r1"
    \/ Reset("p1")
    \/ /\ UserRequest("u1")
       /\ upc'["u1"].pc = "check" => upc'["u1"].op \notin {"role-add", "role-edit"}

SpecUnique == Init /\ [][NextUnique]_vars

\* ------------------------------------------------------------------------
\* Role routes behind the middleware (routes/role.js names auth on each)
\* ------------------------------------------------------------------------
\* POST /api/role/add behind auth
HandlerRoleAdd(r, name) ==
    /\ mw.next = 1 /\ ~mw.ran
    /\ mw.variant = "auth"
    /\ roles[r] = "absent"
    /\ ~RoleIndexViolated(Trim(name), Undefined)
    /\ roles' = [roles EXCEPT ![r] = "active"]
    /\ roleNames' = [roleNames EXCEPT ![r] = Trim(name)]
    /\ mw' = [mw EXCEPT !.ran = TRUE]
    /\ UNCHANGED <<users, faculty, nextId, procVars, tokens, now, acctVars,
                   classVars, upc, noteVars>>

\* PUT /api/role/edit/:id behind auth
HandlerRoleEdit(r, name) ==
    /\ mw.next = 1 /\ ~mw.ran
    /\ mw.variant = "auth"
    /\ roles[r] = "active"
    /\ ~RoleIndexViolated(Trim(name), r)
    /\ roleNames' = [roleNames EXCEPT ![r] = Trim(name)]
    /\ mw' = [mw EXCEPT !.ran = TRUE]
    /\ UNCHANGED <<dbVars, procVars, tokens, now, acctVars, classVars, upc,
                   noteVars>>

\* DELETE /api/role/delete/:id behind auth
HandlerRoleDelete(r) ==
    /\ mw.next = 1 /\ ~mw.ran
    /\ mw.variant = "auth"
    /\ roles[r] = "active"
    /\ roles' = [roles EXCEPT ![r] = "inactive"]
    /\ mw' = [mw EXCEPT !.ran = TRUE]
    /\ UNCHANGED <<users, faculty, nextId, procVars, tokens, now, extVars>>

NextRoleAuth ==
    \/ \E email \in Emails, password \in Passwords : SignupForToken(email, password)
    \/ \E u \in users : SetUserRole(u, "admin")
    \/ \E variant \in {"auth", "adminAuth"}, h \in Headers : Request(variant, h)
    \/ HandlerOther
    \/ \E r \in RoleIds, name \in RoleNames : HandlerRoleAdd(r, name)
    \/ \E r \in RoleIds, name \in RoleNames : HandlerRoleEdit(r, name)
    \/ \E r \in RoleIds : HandlerRoleDelete(r)

SpecRoleAuth == Init /\ [][NextRoleAuth]_vars

\* ------------------------------------------------------------------------
\* Notes (models/note.js, routes/notes.js)
\* ------------------------------------------------------------------------
NoteIds == {"n1", "n2"}

\* title is required by the schema; Undefined is a body without it
Titles == {"t1", "t2", Undefined}

Contents == {"c1", "c2"}

NoteAnswer(op, caller, id, title, content, status) ==
    [op |-> op, caller |-> caller, id |-> id, title |-> title,
     content |-> content, status |-> status]

\* Note.deleteOne(filter): the first matching document is removed; the
\* unique index on id leaves at most one
DeleteOne(matching) == notes \ matching

\* POST /api/notes/add: Note.deleteOne({ id }), then newNotes.save(), whose
\* validation fails when the title is absent; any error is answered 500
NoteAdd(caller, id, title, content) ==
    /\ nout = NoNote
    /\ LET kept == DeleteOne({n \in notes : n.id = id})
           d == [id |-> id, userId |-> caller, title |-> title, content |-> content]
       IN  IF title = Undefined
           THEN /\ notes' = kept
                /\ nout' = NoteAnswer("add", caller, id, title, content, 500)
           ELSE /\ notes' = kept \cup {d}
                /\ nout' = NoteAnswer("add", caller, id, title, content, 200)
    /\ UNCHANGED <<dbVars, procVars, authVars, acctVars, classVars, userVars>>

\* POST /api/notes/delete: Note.deleteOne({ id, userId: req.user.userId })
NoteDelete(caller, id) ==
    /\ nout = NoNote
    /\ notes' = DeleteOne({n \in notes : n.id = id /\ n.userId = caller})
    /\ nout' = NoteAnswer("delete", caller, id, None, None, 200)
    /\ UNCHANGED <<dbVars, procVars, authVars, acctVars, classVars, userVars>>

\* The response has been delivered
NoteDeliver ==
    /\ nout # NoNote
    /\ nout' = NoNote
    /\ UNCHANGED <<dbVars, procVars, authVars, acctVars, classVars, userVars, notes>>

NextNotes ==
    \/ \E email \in Emails, password \in Passwords : Signup(email, password)
    \/ \E u \in users, id \in NoteIds, title \in Titles, content \in Contents :
          NoteAdd(u.id, id, title, content)
    \/ \E u \in users, id \in NoteIds : NoteDelete(u.id, id)
    \/ NoteDeliver

SpecNotes == Init /\ [][NextNotes]_vars

\* ------------------------------------------------------------------------
\* Properties of faculty registration
\* ------------------------------------------------------------------------
AddDone(p) == pc[p] = "done" /\ req[p].op = "add"

\* The documents of request p that are in the database
CommittedFacultyOf(p) == {f \in faculty : \E d \in loc[p].fdoc : d.id = f.id}

CommittedUsersOf(p) == {u \in users : \E d \in loc[p].udoc : d.id = u.id}

CreatedNothing(p) == CommittedFacultyOf(p) = {} /\ CommittedUsersOf(p) = {}

\* The database failed under the request (a save, the commit or the populate)
DbFailed(p) == resp[p].error \in {"DbError", "TransactionError"}

\* C1: whenever POST /api/faculty/add answers 4xx or 5xx, neither the Faculty
\* nor the User document of that request is in the database.
C1_ErrorLeavesNoDocuments ==
    \A p \in Procs :
        AddDone(p) /\ resp[p].status >= 400 => CreatedNothing(p)

C3_FacultyHasOneUser ==
    \A f \in faculty : Cardinality({u \in users : u.email = f.email}) = 1


\* Another request's Faculty document, committed or pending, carries the id
\* pair request p generated, under a different email and mobile number
Collides(p) ==
    \E f \in faculty \cup OthersPendingFaculty(p), i \in loc[p].ids :
        /\ \A d \in loc[p].fdoc : d.id # f.id
        /\ f.facultyId = i.facultyId \/ f.employeeId = i.employeeId
        /\ f.email # ToLowerCase(req[p].email)
        /\ f.mobile # req[p].mobile

UniqueFacultyIds ==
    \A f, g \in faculty :
        f.id # g.id => f.facultyId # g.facultyId /\ f.employeeId # g.employeeId

\* C4: no two committed Faculty documents share a facultyId or an employeeId,
\* and a registration that generated the id pair of another one (distinct
\* email and mobile number) and is not the one to commit answers 400 with a
\* duplicate-key error and has written neither document.
C4_UniqueIdsOrDuplicateKey ==
    /\ UniqueFacultyIds
    /\ \A p \in Procs :
          (AddDone(p) /\ Collides(p)
              /\ resp[p].error \notin {"DbError", "TransactionError", "Error"})
          => /\ resp[p].status = 400
             /\ resp[p].error = "DuplicateKey"
             /\ CreatedNothing(p)

DuplicateErrors == {"DuplicateEmail", "DuplicateKey"}

WrittenByAddOrEdit(f) ==
    ~\E g \in faculty : [g EXCEPT !.isActive = f.isActive] = f

\* C7: no Faculty document is created or updated with a role that is not an
\* active Role when the write takes effect.
C7_WritesOnlyAgainstActiveRole ==
    [][\A f \in faculty' : WrittenByAddOrEdit(f) => roles'[f.role] = "active"]_vars


\* ------------------------------------------------------------------------
\* Properties of the authorization middleware
\* ------------------------------------------------------------------------
\* A step in which the middleware handles a request
MwStep == mw' # mw /\ ~mw'.ran

WellSigned(t) == t.sig = "valid"

Unexpired(t) == now - t.iat < TokenTTL

UserExists(t) == \E u \in users : u.id = t.userId

StoredRole(t) == (CHOOSE u \in users : u.id = t.userId).role

Acceptable(h) ==
    /\ h.scheme = "Bearer"
    /\ WellSigned(h.token)
    /\ Unexpired(h.token)
    /\ UserExists(h.token)

\* C8: the middleware lets a request through to its handler only when the
\* Authorization header is a Bearer header whose token is signed by the
\* server, was issued less than 24 hours ago and names an existing User;
\* otherwise it answers 401, the handler never runs and nothing is written.
C8_HandlerOnlyBehindValidToken ==
    [][ /\ MwStep =>
              /\ mw'.next = 1 => Acceptable(mw'.header)
              /\ ~Acceptable(mw'.header) =>
                    mw'.status = 401 /\ mw'.next = 0 /\ dbVars' = dbVars
        /\ (mw'.ran /\ ~mw.ran) => (mw.next = 1 /\ mw.status = 0)
        /\ (users' # users /\ users' \subseteq users) => (mw.next = 1 /\ ~mw.ran)
      ]_vars

C8_Witness ==
    /\ mw.variant = "auth" /\ mw.next = 1 /\ mw.ran
    /\ now - mw.header.token.iat = TickHours
    /\ ~UserExists(mw.header.token)

\* C9: the role attached to the request is the role stored for the user at
\* the time of the request, whatever role the token carries; adminAuth and
\* facultyAuth answer 403 without calling the handler exactly when that
\* stored role is not the required one, and call the handler once when it is.
C9_RoleComesFromDatabase ==
    [][ MwStep =>
          LET h == mw'.header
              required == IF mw'.variant = "adminAuth" THEN "admin" ELSE "faculty"
          IN  /\ mw'.next \in {0, 1}
              /\ mw'.next = 1 => mw'.user.role = StoredRole(h.token)
              /\ (mw'.variant # "auth" /\ Acceptable(h)) =>
                    IF StoredRole(h.token) = required
                    THEN mw'.next = 1 /\ mw'.status = 0
                    ELSE mw'.next = 0 /\ mw'.status = 403
              /\ mw'.status = 403 =>
                    /\ mw'.variant # "auth"
                    /\ Acceptable(h)
                    /\ StoredRole(h.token) # required
      ]_vars

C9_Witness ==
    /\ mw.variant = "adminAuth" /\ mw.next = 1
    /\ mw.header.token.role # "admin"
    /\ mw.user.role = "admin"

\* C10 (as stated): a correctly signed, unexpired token is accepted whatever
\* has happened to the database since it was issued.
C10_SignedUnexpiredAlwaysAccepted ==
    [][ (MwStep /\ mw'.variant = "auth" /\ mw'.header.scheme = "Bearer"
            /\ WellSigned(mw'.header.token) /\ Unexpired(mw'.header.token))
        => mw'.next = 1 ]_vars

\* C10 (amended): a correctly signed, unexpired token is accepted exactly as
\* long as the User it names still exists: a change of the stored role does
\* not revoke it, the deletion of the User does (401).
C10_SignedUnexpiredAcceptedWhileUserExists ==
    [][ (MwStep /\ mw'.variant = "auth" /\ mw'.header.scheme = "Bearer"
            /\ WellSigned(mw'.header.token) /\ Unexpired(mw'.header.token))
        => /\ UserExists(mw'.header.token) => (mw'.next = 1 /\ mw'.status = 0)
           /\ ~UserExists(mw'.header.token) => (mw'.next = 0 /\ mw'.status = 401)
      ]_vars

C10_Witness ==
    /\ mw.variant = "auth" /\ mw.status = 401 /\ mw.header.scheme = "Bearer"
    /\ mw.header.token \in tokens
    /\ Unexpired(mw.header.token)
    /\ ~UserExists(mw.header.token)

\* ------------------------------------------------------------------------
\* Properties of accounts
\* ------------------------------------------------------------------------
TypedPasswords == AccountPasswords \ {EmptyPassword}

UserById(id) == CHOOSE u \in users : u.id = id

\* The signup of email e is on record, its User still exists and its
\* password has not been changed
SignupStands(e) ==
    /\ signed[e].userId # 0
    /\ \E u \in users : u.id = signed[e].userId

\* C11: after a successful signup with email e and password p, and no
\* change-password or delete since, a login with e and p answers 200 with a
\* token whose userId is the one the signup returned, and a login with e and
\* any other (non-empty) password answers 401 without a token.
C11_LoginAfterSignup ==
    [][ \A e \in Emails, p \in TypedPasswords :
          (out'.op = "login" /\ SignupStands(e) /\ LoginRequest(e, p))
          => IF p = signed[e].password
             THEN /\ out'.status = 200
                  /\ out'.token.userId = signed[e].userId
                  /\ out'.userId = signed[e].userId
                  /\ out'.token.sig = "valid"
             ELSE out'.status = 401 /\ out'.token = NoToken
      ]_vars

\* C11 witness: the signup typed an upper-case email; the login answered 200
\* for that account
C11_Witness ==
    /\ out.op = "login" /\ out.status = 200
    /\ signed[<<"B">>].userId = out.userId
    /\ \E u \in users : u.id = out.userId /\ u.email = <<"b">>

\* C12: after a successful faculty registration, and no password change,
\* faculty edit or delete since, POST /faculty/login with the returned
\* loginCredentials (lower-cased email, default password) answers 200 and
\* reports isFirstLogin = true.
C12_FacultyLoginWithReturnedCredentials ==
    [][ \A f \in faculty :
          (/\ out'.op = "faculty-login"
           /\ f.isActive
           /\ changed = NoChange
           /\ \E u \in users : u.email = f.email
           /\ FacultyLoginRequest(f.email, DefaultFacultyPassword))
          => out'.status = 200 /\ out'.isFirstLogin = TRUE
      ]_vars

\* The conditions under which a faculty login may succeed
FacultyLoginAllowed(e, p) ==
    /\ \E u \in users :
          u.email = ToLowerCase(e) /\ u.role = "faculty" /\ u.password = <<"hash", p>>
    /\ \E f \in faculty : f.email = ToLowerCase(e) /\ f.isActive

C14_DefaultPasswordRejected ==
    [][ \A u \in users, cur \in TypedPasswords :
          (/\ out'.op = "faculty-change-password"
           /\ u.role = "faculty"
           /\ u.password = <<"hash", cur>>
           /\ FacultyChangePasswordRequest(u, cur, DefaultFacultyPassword))
          => out'.status = 400 /\ users' = users
      ]_vars

\* C15: after a successful change from password p to a different password q,
\* and until the next successful change, login with p answers 401 and login
\* with q answers 200 for that account (while it exists); a successful
\* faculty change clears isFirstLogin, and nothing sets it again.
C15_PasswordChangeTakesEffect ==
    [][ /\ \A e \in LoginEmails, p \in TypedPasswords :
              (/\ out'.op = "login"
               /\ changed.userId # 0
               /\ changed.old # changed.new
               /\ \E u \in users : u.id = changed.userId /\ u.email = ToLowerCase(e)
               /\ LoginRequest(e, p))
              => /\ p = changed.old => out'.status = 401
                 /\ p = changed.new =>
                       out'.status = 200 /\ out'.userId = changed.userId
        /\ \A u \in users, cur \in TypedPasswords, new \in TypedPasswords :
              (/\ out'.op = "faculty-change-password" /\ out'.status = 200
               /\ FacultyChangePasswordRequest(u, cur, new))
              => \E v \in users' :
                    v.id = u.id /\ ~v.isFirstLogin /\ v.password = <<"hash", new>>
        /\ \A u \in users, v \in users' :
              (u.id = v.id /\ ~u.isFirstLogin) => ~v.isFirstLogin
      ]_vars

\* C15 witness: a faculty account changed its password, and a login with the
\* new password has answered 200
C15_Witness ==
    /\ out.op = "login" /\ out.status = 200
    /\ out.userId = changed.userId
    /\ changed.old # changed.new
    /\ \E u \in users : u.id = out.userId /\ ~u.isFirstLogin

\* C16: both change-password variants answer 400 and leave the stored
\* password and the first-login flag unchanged when newPassword is shorter
\* than 6 characters or currentPassword does not match the stored password.
C16_ShortOrMismatchIs400 ==
    [][ \A u \in users, cur \in TypedPasswords, new \in TypedPasswords :
          (/\ \/ PasswordLength(new) < MinPasswordLength
              \/ u.password # <<"hash", cur>>
           /\ \/ /\ out'.op = "change-password"
                 /\ ChangePasswordRequest("change-password", u, cur, new)
              \/ /\ out'.op = "faculty-change-password"
                 /\ u.role = "faculty"
                 /\ FacultyChangePasswordRequest(u, cur, new))
          => out'.status = 400 /\ users' = users
      ]_vars

\* ------------------------------------------------------------------------
\* Properties of classes
\* ------------------------------------------------------------------------
ClassById(id) == CHOOSE c \in classes : c.id = id

\* The edit request of process p carries the triple its target already has
OwnTriple(p) ==
    /\ cpc[p].pc # "idle"
    /\ cpc[p].op = "edit"
    /\ \E c \in classes : c.id = cpc[p].id /\ KeyOf(c) = ClassKey(cpc[p])

\* No other class holds the triple of the request of process p
TripleFree(p) ==
    \A c \in classes :
        c.id # cpc[p].id => Fold(KeyOf(c)) # Fold(ClassKey(cpc[p]))

\* C17: a class edit that carries the class's own unchanged name, section and
\* academicYear passes the duplicate pre-check and the unique index although
\* the class itself holds that triple, answers 200 when the class teacher
\* exists and no other class holds the triple, and writes the document the
\* request describes, so an identical edit repeated leaves the class as the
\* first edit left it.
C17_EditWithOwnTriple ==
    [][\A self \in ClassProcs :
         (OwnTriple(self) /\ TripleFree(self)) =>
            /\ ClassEditCheck(self) => cpc'[self].pc = "write"
            /\ (ClassEditUpdate(self)
                   /\ \E f \in faculty : f.id = cpc[self].classTeacher) =>
                  /\ cpc'[self].pc = "done" /\ cpc'[self].status = 200
                  /\ classes' = {c \in classes : c.id # cpc[self].id}
                                   \cup {NewClass(cpc[self], cpc[self].id)}
                  /\ ClassById(cpc[self].id) = NewClass(cpc[self], cpc[self].id)
                        => classes' = classes]_vars

\* An identical edit is repeated: the class is already what the edit writes
\* and the pre-check has let the request through
C17_Witness ==
    /\ cpc["c1"].pc = "write" /\ OwnTriple("c1") /\ TripleFree("c1")
    /\ cpc["c2"].pc = "idle"
    /\ ClassById(cpc["c1"].id) = NewClass(cpc["c1"], cpc["c1"].id)

\* C18: no two Class documents have the same (name, section, academicYear)
\* when the triples are compared case-insensitively.
C18_TriplesUniqueIgnoringCase ==
    \A c, d \in classes : Fold(KeyOf(c)) = Fold(KeyOf(d)) => c.id = d.id

\* ------------------------------------------------------------------------
\* Properties of unique fields
\* ------------------------------------------------------------------------
\* The update request of process p carries the unique fields its target holds
OwnUniqueFields(p) ==
    /\ upc[p].pc = "check"
    /\ \/ /\ upc[p].op = "edit-details"
          /\ \E u \in users : u.id = upc[p].id /\ u.mobile = upc[p].mobile
       \/ /\ upc[p].op = "student-edit"
          /\ \E u \in users :
                /\ u.id = upc[p].id
                /\ u.mobile = upc[p].mobile
                /\ u.email = ToLowerCase(upc[p].email)
       \/ /\ upc[p].op = "role-edit"
          /\ roles[upc[p].id] = "active"
          /\ roleNames[upc[p].id] = Trim(upc[p].name)

PreCheckDuplicateErrors == {"MobileRegistered", "EmailRegistered", "RoleNameExists"}

\* C19: the pre-check of an update excludes the document being updated: a
\* user edit-details, a student edit or a role edit that carries the
\* document's own unchanged unique fields is never answered with a
\* duplicate error by the pre-check.
C19_UpdateExcludesItself ==
    [][\A self \in UserProcs :
         (OwnUniqueFields(self) /\ upc'[self].pc = "done")
            => upc'[self].error \notin PreCheckDuplicateErrors]_vars

\* C20: a write that a unique index refuses after the pre-check has passed
\* is answered with status 400, for signup, student add, user add-details
\* and edit-details, student edit, role add and role edit.
C20_IndexRejectionIs400 ==
    \A p \in UserProcs :
        (upc[p].pc = "done" /\ upc[p].error = "E11000") => upc[p].status = 400

\* C21: no two User documents share an email, and no two User documents
\* that have a mobile number share it, whatever the interleaving of signup,
\* student add, student edit, user add-details and edit-details and a
\* faculty registration.
C21_UserEmailAndMobileUnique ==
    \A u, v \in users :
        u.id # v.id =>
            /\ u.email # v.email
            /\ u.mobile # Undefined => u.mobile # v.mobile

\* A write that passed its pre-check is refused by the index because a
\* faculty registration committed the same key in between
C21_Witness ==
    /\ upc["u1"].pc = "done" /\ upc["u1"].error = "E11000"
    /\ \E f \in faculty, u \in users :
          /\ u.email = f.email
          /\ \/ u.email = ToLowerCase(upc["u1"].email)
             \/ u.mobile = upc["u1"].mobile

\* C22: role add, role edit and role delete are admin-only: a Role document
\* changes only in a request whose caller's resolved role is 'admin'.
C22_RoleWritesAdminOnly ==
    [][(roles' # roles \/ roleNames' # roleNames) => mw.user.role = "admin"]_vars

\* C23: a faculty-add request that lacks one of the required fields is
\* answered with status 400.
C23_MissingFieldIs400 ==
    \A p \in Procs :
        (pc[p] = "done" /\ req[p].op = "add-incomplete") => resp[p].status = 400

\* C24: no step changes the facultyId or the employeeId of a Faculty
\* document: through every faculty edit, a change of department included,
\* and every faculty delete, a document keeps the two ids it was created with.
C24_FacultyIdsImmutable ==
    [][\A f \in faculty : \A g \in faculty' :
          g.id = f.id => g.facultyId = f.facultyId /\ g.employeeId = f.employeeId]_vars

\* An edit has moved a Faculty to another department and the document, now
\* deleted, still carries the ids built from its first department
C24_Witness ==
    \E f \in faculty, d \in Departments, n \in 0..MaxId :
        /\ ~f.isActive
        /\ DepartmentCode(d) # DepartmentCode(f.department)
        /\ f.facultyId = MakeFacultyId(CurrentYear, d, n)
        /\ f.employeeId = MakeEmployeeId(CurrentYear, d, n)

SequenceOf(f) == f.facultyId[4]

\* Faculty requests one at a time: the count never falls and each new
\* Faculty is numbered above every earlier one
CountGrowsSequencesRise ==
    /\ Cardinality(faculty') >= Cardinality(faculty)
    /\ \A g \in faculty' :
          (~\E f \in faculty : f.id = g.id) =>
              \A f \in faculty : SequenceOf(g) > SequenceOf(f)

\* C26: the number of Faculty documents never decreases, each successful
\* registration of a sequential run receives a sequence number above that of
\* every earlier Faculty, and a registration answered with an error leaves
\* no Faculty carrying the sequence number it generated.
C26_SequenceNumbers ==
    [][/\ CountGrowsSequencesRise
       /\ \A p \in Procs :
             (pc'[p] = "done" /\ req'[p].op = "add" /\ resp'[p].status # 201) =>
                 \A i \in loc'[p].ids : \A f \in faculty' :
                     f.facultyId # i.facultyId]_vars

RolePresent(r) == roles[r] # "absent"

\* The pre-check of process p runs in this step
RolePreCheck(p) == upc[p].pc = "check" /\ upc'[p].pc # "check"

Refused(p, status) ==
    /\ upc'[p].pc = "done" /\ upc'[p].status = status
    /\ roles' = roles /\ roleNames' = roleNames

\* C27: no two Role documents, active or deleted, share a name; a deleted
\* role stays deleted and no Role document is removed; a role edit that
\* finds its role deleted is answered 404; a role add or edit whose name the
\* pre-check finds on another Role, active or deleted, is answered 400; the
\* refused requests write nothing.
C27_RoleNamesUnique ==
    [][/\ \A r, q \in RoleIds :
             (r # q /\ roles'[r] # "absent" /\ roles'[q] # "absent")
                => roleNames'[r] # roleNames'[q]
       /\ \A r \in RoleIds :
             /\ roles[r] = "inactive" => roles'[r] = "inactive"
             /\ RolePresent(r) => roles'[r] # "absent"
       /\ \A p \in UserProcs :
             RolePreCheck(p) =>
                /\ (upc[p].op = "role-edit" /\ roles[upc[p].id] # "active")
                      => Refused(p, 404)
                /\ (upc[p].op = "role-add"
                       /\ \E r \in RoleIds :
                             RolePresent(r) /\ roleNames[r] = Trim(upc[p].name))
                      => Refused(p, 400)
                /\ (upc[p].op = "role-edit" /\ roles[upc[p].id] = "active"
                       /\ \E r \in RoleIds \ {upc[p].id} :
                             RolePresent(r) /\ roleNames[r] = Trim(upc[p].name))
                      => Refused(p, 400)]_vars

\* A role add that names a deleted role has been answered 400
C27_Witness ==
    \E p \in UserProcs, r \in RoleIds :
        /\ upc[p].pc = "done" /\ upc[p].op = "role-add" /\ upc[p].status = 400
        /\ roles[r] = "inactive" /\ roleNames[r] = Trim(upc[p].name)

\* ------------------------------------------------------------------------
\* Properties of notes
\* ------------------------------------------------------------------------
\* C28: a note add or note delete request leaves every note owned by a user
\* other than its caller in the collection, with its title and content.
C28_OthersNotesUntouched ==
    [][nout'.op # None =>
          \A n \in notes : n.userId # nout'.caller => n \in notes']_vars

\* C29: a note add answered with an error leaves the Notes collection as it
\* was, and a note add that succeeds leaves exactly one note with the id of
\* the request, owned by the caller and holding the submitted title and
\* content.
C29_NoteAddAllOrNothing ==
    [][nout'.op = "add" =>
          IF nout'.status # 200
          THEN notes' = notes
          ELSE {n \in notes' : n.id = nout'.id}
                  = {[id |-> nout'.id, userId |-> nout'.caller,
                      title |-> nout'.title, content |-> nout'.content]}]_vars

\* ------------------------------------------------------------------------
\* Properties of the registration transaction
\* ------------------------------------------------------------------------
TxnOpen(p) == req[p].op = "add" /\ loc[p].txn = "active"

TxnSettled(p) == loc[p].txn \in {"committed", "aborted"}

InFlight(p) == req[p].op = "add" /\ pc[p] \notin {"idle", "done"}

\* A session is ended at most once and only after its transaction has
\* settled; an answered request has answered once and, if it opened a
\* session, has ended it once
SessionAndResponseOnce ==
    \A p \in Procs :
        /\ loc[p].ended <= 1
        /\ resp[p].count <= 1
        /\ (loc[p].ended = 1 => TxnSettled(p))
        /\ (req[p].op = "add" /\ pc[p] = "done" =>
                /\ resp[p].count = 1
                /\ loc[p].txn # "active"
                /\ (TxnSettled(p) => loc[p].ended = 1))
        /\ (InFlight(p) => resp[p].count = 0 /\ loc[p].ended = 0)

\* Within one request a committed transaction is never aborted and an
\* aborted one never committed
NeverBoth ==
    \A p \in Procs :
        /\ (loc[p].txn = "committed" => loc'[p].txn # "aborted")
        /\ (loc[p].txn = "aborted" => loc'[p].txn # "committed")

====
